---- MODULE Spec2Model ----
(***************************************************************************)
(* Verification model of the bob daemon core: the job scheduler (job       *)
(* store, tick loop, DND deferral), the event queue (claim / ack /         *)
(* release, heartbeat dispatch), the streaming reply engine, the recall    *)
(* index and search, the daemon startup, the schedule parser, the session  *)
(* store, the transport loop and the message chunker.                      *)
(*                                                                         *)
(* The specifications of this module share its variables:                  *)
(*   SchedSpec      - jobs table, two scheduler processes, DND state       *)
(*   TickSpec       - one scheduler process with overlapping tick calls    *)
(*   JobsSpec       - one scheduler process with addJob / removeJob        *)
(*   EventSpec      - events table, event-store callers, processEvents     *)
(*   DispatchSpec   - processEvents over a table of waiting events         *)
(*   ReplySpec      - one streamAgentReply execution                       *)
(*   IndexSpec      - recall index of one source file                      *)
(*   IndexCrashSpec - IndexSpec with a process exit during indexing        *)
(*   StopSpec       - one scheduler with its timers and its stop function  *)
(*   ExecSpec       - one executeJob call: what it sends and spawns        *)
(*   BootSpec       - daemon startups and the crash marker                 *)
(*   DndSpec        - isDndActive in a time zone, with the CLI beside it   *)
(*   SearchSpec     - one recall search (rank fusion)                      *)
(*   NextRunSpec    - computeNextRunAt at two times                        *)
(*   ParseSpec      - one parseSchedule call                               *)
(*   LoopSpec       - the scheduler loop: timers, heartbeat, ticks         *)
(*   FairLoopSpec   - LoopSpec with fair ticks and timers                  *)
(*   DeferSpec      - the scheduler loop without heartbeat, with DND       *)
(*   FairDeferSpec  - DeferSpec with fair ticks and timers                 *)
(*   SessSpec       - two SessionStore instances on one file               *)
(*   TgSpec         - the transport loop and its update offset             *)
(*   ChunkSpec      - one chunkTelegramMessage call                        *)
(* Each specification leaves the variables of the others at their initial  *)
(* values.                                                                 *)
(***************************************************************************)
EXTENDS Integers, Sequences, FiniteSets, TLC

(***************************************************************************)
(* Bounds of the model                                                     *)
(***************************************************************************)
MaxTime == 2        \* the scheduler clock runs over 0..MaxTime
MaxJobs == 1        \* number of rows addJob may insert
MaxEvents == 2      \* number of rows addEvent may insert
MaxTokens == 2      \* number of claim tokens randomUUID hands out
MaxClockSteps == 2  \* the event clock runs over 0..MaxClockSteps time steps
MaxDeltas == 3      \* number of deltas the engine streams in one reply
MaxReplySteps == 2  \* the reply clock advances at most this many flush intervals
MaxPending == 21    \* number of events waiting when a heartbeat dispatch begins
MaxVersions == 2    \* number of different contents the memory file takes
MaxChunkRows == 4   \* the chunks table hands out ids 1..MaxChunkRows
MaxCount == 3       \* parseSchedule reads the numbers 0..MaxCount, among others
MaxSaves == 3       \* number of setter calls on the session stores
MaxUpdates == 3     \* number of updates the bot receives
MaxTextLen == 5     \* number of characters of the longest text that is chunked
MaxChunkChars == 3  \* the greatest maxChars chunkTelegramMessage is called with
DayLen == 3         \* wall-clock minutes per day of the DND window model
MaxPathLen == 3     \* number of segments of a script path in a job payload
MaxBoots == 3       \* number of times the daemon is started
DndDays == 4        \* number of days the instants of the DND evaluation range over
MaxHits == 3        \* number of chunks a search list can hold
MaxFrom == 4        \* the `from` times and specs of computeNextRunAt range over 0..MaxFrom

NULL == -1          \* SQL NULL / JS null for timestamps and ids

Procs == {"A", "B"}    \* the scheduler processes sharing jobs.db
Times == 0..MaxTime

Max(a, b) == IF a >= b THEN a ELSE b
Min(a, b) == IF a <= b THEN a ELSE b

VARIABLES
  \* ---- scheduler ----
  now,          \* wall clock (new Date())
  jobs,         \* jobs table: id -> row
  nextJobId,    \* AUTOINCREMENT counter of the jobs table
  adhocUntil,   \* dnd-state.json: adhoc.until, NULL when adhoc = null
  pc,           \* per process: position inside tick
  due,          \* per process: the claimed JobRecords still to be handled
  tickNow,      \* per process: the `now` captured before claimDueJobs (0 outside a tick)
  ran,          \* history: per job, how many times its body was started (saturates at 2)
  succeeded,    \* history: per job, whether an execution returned normally
  running,      \* per process: the `running` flag of startScheduler
  bodies,       \* history: per process, the number of tick bodies in execution
  rejected,     \* history: per process, a tick call returned at the flag during this tick
  \* ---- event queue ----
  clock,        \* wall clock of the event store callers, in ms
  events,       \* events table: id -> row
  nextEventId,  \* AUTOINCREMENT counter of the events table
  nextToken,    \* the next value randomUUID() hands out
  pePc,         \* processEvents: position ("idle", "dispatch", "finish")
  peToken,      \* processEvents: claimToken of the running call
  peGroups,     \* processEvents: the groups still to be dispatched
  lastCall,     \* history: the event-store call made by the last step and what it returned
  \* ---- streaming reply ----
  rNow,         \* Date.now() during the reply, in ms
  reply,        \* the state of one streamAgentReply call (fields below)
  \* ---- recall index ----
  fileContent,    \* the content of the memory file of the source, NULL when it does not exist
  chunks,         \* chunks table: the rows of the source
  embeddings,     \* embeddings (and vectors_vec) table: the chunk ids that have a row
  nextChunkId,    \* AUTOINCREMENT counter of the chunks table
  srcFingerprint, \* sources table: the fingerprint of the source, NULL when it has no row
  ixPc,           \* indexAll: position inside the indexing of the source
  ixContent,      \* indexAll: the content read from the file
  ixCount,        \* history: what the last indexAll returned as count, NULL when it did not return
  \* ---- scheduler lifecycle ----
  stopped,        \* the `stopped` flag of startScheduler
  timer,          \* TRUE when the tick timer is armed
  wakeTimer,      \* TRUE when the wake-debounce timer is armed
  storeOpen,      \* FALSE once store.close() was called
  closedDbThrows, \* whether a prepared statement of a closed database raises
  wokeAfterStop,  \* history: requestWake was called after the stop function
  \* ---- one executeJob call ----
  exJob,          \* the JobRecord executeJob is called with
  exDnd,          \* whether isDndActive reports active during the call
  exPc,           \* position of the call
  exError,        \* the error the call threw, "" when none
  spawned,        \* the script path given to Bun.spawn, <<>> when nothing was spawned
  outbox,         \* the chat ids of the sendTelegramMessage calls, in order
  \* ---- daemon startup ----
  marker,         \* last_exit.json: its exitCode, NULL when the file does not exist
  allowlist,      \* config.telegram.allowlist
  bootPc,         \* position of main: "boot", "clear", "run" or "down"
  boots,          \* history: how many times the daemon was started
  crashEvents,    \* the chat ids of the daemon_crashed events in the events table
  queued,         \* history: this startup added a daemon_crashed event
  \* ---- one daemon evaluating isDndActive, and the CLI ----
  dConfig,        \* the DndConfig: enabled, start, end (minutes of day)
  dZone,          \* the configured time zone
  dNow,           \* the instant of the evaluation
  dndFile,        \* dnd-state.json: adhoc.until, NULL for adhoc = null
  dPc,            \* position of isDndActive: "idle", "loaded" or "done"
  dLoaded,        \* the adhoc.until loadDndState returned to isDndActive
  dStatus,        \* the DndStatus the last isDndActive call returned
  \* ---- one recall search ----
  ftsResults,     \* what store.searchFts returned: chunk ids, best first
  vecResults,     \* what store.searchVector returned: chunk ids, best first
  searchLimit,    \* options.limit
  searchPc,       \* "ready" before the fusion, "done" after
  searchResult,   \* the SearchResult list search returned
  \* ---- computeNextRunAt at two times ----
  nrKind,         \* the schedule kind
  nrSpec,         \* the spec: an at-time, an interval or a cron period
  nrFrom,         \* the two `from` times <<t1, t2>>, t1 <= t2
  nrResult,       \* <<computeNextRunAt(.., t1), computeNextRunAt(.., t2)>>, <<>> before
  \* ---- one parseSchedule call ----
  psInput,        \* the input string, as tokens
  psNow,          \* Date.now() during the call
  psDate,         \* the time value of new Date(trimmed), NaNTime before the call
  psPc,           \* "ready" before the call, "done" after
  psResult,       \* what the call returned or threw
  \* ---- the scheduler loop ----
  timerAt,        \* the time the tick timer is armed for
  hbEnabled,      \* options.heartbeat.enabled
  arrived,        \* history: a job, an event or a wake request came during the tick
  \* ---- the session document and its two stores ----
  ssState,        \* this.state of each SessionStore instance, per chat
  ssPc,           \* where each instance is: "closed", "ready", "opened", "written"
  ssFd,           \* the inode writeFileSync of the instance has open
  ssChat,         \* the chat the running setter of the instance changes
  ssWrites,       \* number of setter calls so far (the value the next one stores)
  ssSaved,        \* history: per chat, the value of the last setter call that returned
  inodes,         \* content of every inode of the sessions directory
  sessIno,        \* the inode sessions.json names, NULL when the file is absent
  tmpIno,         \* the inode sessions.json.tmp names, NULL when absent
  \* ---- the transport loop ----
  tgUpdates,      \* the updates the bot has received; update_id is the index
  tgConfirmed,    \* the server forgets the updates below this id
  tgOnCallback,   \* handlers.onCallback is given
  tgOffset,       \* the loop's offset, NULL for undefined
  tgStateFile,    \* content of the file at statePath, <<>> when absent
  tgBatch,        \* the updates of the current batch not yet looked at
  tgPc,           \* "poll", "loop" or "handler"
  tgDealt,        \* history: ids of the updates the loop has dealt with
  \* ---- one chunkTelegramMessage call ----
  ckText,         \* rendered.text, a sequence of characters
  ckEntities,     \* rendered.entities
  ckMax,          \* maxChars
  ckStart,        \* the local `start`
  ckChunks,       \* the local `chunks`, and the returned list
  ckPc            \* "ready", "loop" or "done"

tickFlags == <<running, bodies, rejected>>

schedVars == <<now, jobs, nextJobId, adhocUntil, pc, due, tickNow, ran, succeeded, tickFlags>>

eventVars == <<clock, events, nextEventId, nextToken, pePc, peToken, peGroups, lastCall>>

replyVars == <<rNow, reply>>

indexVars ==
  <<fileContent, chunks, embeddings, nextChunkId, srcFingerprint, ixPc, ixContent, ixCount>>

lifeVars == <<stopped, timer, wakeTimer, storeOpen, closedDbThrows, wokeAfterStop>>

\* the variables outside the scheduler tick, the event queue, the reply and the index
execVars == <<exJob, exDnd, exPc, exError, spawned, outbox>>

bootVars == <<marker, allowlist, bootPc, boots, crashEvents, queued>>

dndVars == <<dConfig, dZone, dNow, dndFile, dPc, dLoaded, dStatus>>

searchVars == <<ftsResults, vecResults, searchLimit, searchPc, searchResult>>

nextRunVars == <<nrKind, nrSpec, nrFrom, nrResult>>

parseVars == <<psInput, psNow, psDate, psPc, psResult>>

loopVars == <<timerAt, hbEnabled, arrived>>

\* the variables of the parser, the scheduler loop, the session store, the
\* transport loop and the chunker
sessVars == <<ssState, ssPc, ssFd, ssChat, ssWrites, ssSaved, inodes, sessIno, tmpIno>>

tgVars ==
  <<tgUpdates, tgConfirmed, tgOnCallback, tgOffset, tgStateFile, tgBatch, tgPc, tgDealt>>

chunkVars == <<ckText, ckEntities, ckMax, ckStart, ckChunks, ckPc>>

tailVars == <<sessVars, tgVars, chunkVars>>

extVars == <<parseVars, loopVars, tailVars>>

\* the variables of auxVars outside extVars
baseAuxVars == <<lifeVars, execVars, bootVars, dndVars, searchVars, nextRunVars>>

\* every variable outside extVars
baseVars ==
  <<schedVars, eventVars, replyVars, indexVars, lifeVars, execVars, bootVars, dndVars,
    searchVars, nextRunVars>>
auxVars == <<lifeVars, execVars, bootVars, dndVars, searchVars, nextRunVars, extVars>>

vars == <<schedVars, eventVars, replyVars, indexVars, auxVars>>

(***************************************************************************)
(* Scheduler: schedules                                                    *)
(***************************************************************************)
ScheduleKinds == {"at", "every", "cron"}
JobTypes == {"send_message", "agent_turn", "script"}

EveryInterval == 2   \* the duration of the modelled `every` spec
CronPeriod == 2      \* the modelled cron expression fires at multiples of this

\* parseEvery(spec): the interval of an `every` spec; the spec is kept as
\* its duration, which the regular expression and `value <= 0` make positive
parseEvery(spec) == spec

\* parseExpression(spec, { currentDate: from }).next(): a cron spec is kept
\* as the period of its occurrences, which are the multiples of the period
cronNext(spec, from) == ((from \div spec) + 1) * spec

\* mutation of computeNextRunAt: an at-time in the past is returned as it is
computeNextRunAtUnclamped(kind, spec, from) ==
  CASE kind = "at" -> spec
    [] kind = "every" -> from + parseEvery(spec)
    [] kind = "cron" -> cronNext(spec, from)
    [] OTHER -> NULL

\* computeNextRunAt(kind, spec, from); spec is the parsed at-time for "at"
computeNextRunAt(kind, spec, from) ==
  CASE kind = "at" -> IF spec <= from THEN from ELSE spec
    [] kind = "every" -> from + parseEvery(spec)
    [] kind = "cron" -> cronNext(spec, from)
    [] OTHER -> NULL

(***************************************************************************)
(* DND                                                                     *)
(***************************************************************************)
DndEnabled == TRUE   \* config.enabled
DndStart == 1        \* config.start, minute of day
DndEnd == 2          \* config.end, minute of day

\* the scheduler's options.dnd and options.timezone
DndConfig == [enabled |-> DndEnabled, start |-> DndStart, end |-> DndEnd]
SchedTimezone == "UTC"

\* time zones: UTC, a zone one unit ahead of UTC, and a zone that is one
\* unit ahead of UTC between DstBegin and DstEnd (daylight saving time)
Zones == {"UTC", "Fixed", "Dst"}
DstBegin == DayLen + 1
DstEnd == 2 * DayLen + 2

\* the offset Intl.DateTimeFormat applies to instant t in the zone
utcOffset(timeZone, t) ==
  CASE timeZone = "UTC" -> 0
    [] timeZone = "Fixed" -> 1
    [] OTHER -> IF t >= DstBegin /\ t < DstEnd THEN 1 ELSE 0

\* getTimeZoneParts(date, timeZone): the wall-clock day and minute of day
getTimeZoneParts(t, timeZone) ==
  LET wall == t + utcOffset(timeZone, t)
  IN [day |-> wall \div DayLen, minute |-> wall % DayLen]

\* Date.UTC(year, month, day, hour, minute, 0)
DateUTC(day, minute) == day * DayLen + minute

getTimeZoneOffsetMs(t, timeZone) ==
  LET parts == getTimeZoneParts(t, timeZone)
  IN DateUTC(parts.day, parts.minute) - t

makeDateInTimeZone(day, minute, timeZone) ==
  LET guess == DateUTC(day, minute)
      offset == getTimeZoneOffsetMs(guess, timeZone)
      adjusted == guess - offset
      adjustedOffset == getTimeZoneOffsetMs(adjusted, timeZone)
  IN IF adjustedOffset # offset THEN guess - adjustedOffset ELSE adjusted

\* mutation of isInTimeWindow: the overnight wrap is not handled
isInTimeWindowNoWrap(start, end, t, timezone) ==
  LET currentMinutes == getTimeZoneParts(t, timezone).minute
  IN currentMinutes >= start /\ currentMinutes < end

isInTimeWindow(start, end, t, timezone) ==
  LET currentMinutes == getTimeZoneParts(t, timezone).minute
  IN IF start > end
       THEN currentMinutes >= start \/ currentMinutes < end
       ELSE currentMinutes >= start /\ currentMinutes < end

getNextWindowEnd(end, t, timezone) ==
  LET nowParts == getTimeZoneParts(t, timezone)
      todayEnd == makeDateInTimeZone(nowParts.day, end, timezone)
      nextDayBase == DateUTC(nowParts.day + 1, DayLen \div 2)
      nextParts == getTimeZoneParts(nextDayBase, timezone)
  IN IF todayEnd > t THEN todayEnd
     ELSE makeDateInTimeZone(nextParts.day, end, timezone)

\* isDndActive(config, dataRoot, timezone, now): the returned status, adhoc
\* being the adhoc.until that loadDndState read (NULL for adhoc = null)
isDndActive(config, adhoc, timezone, t) ==
  IF adhoc # NULL /\ adhoc > t
    THEN [active |-> TRUE, reason |-> "adhoc", endsAt |-> adhoc]
    ELSE IF ~config.enabled
      THEN [active |-> FALSE, reason |-> "none", endsAt |-> NULL]
      ELSE IF isInTimeWindow(config.start, config.end, t, timezone)
        THEN [active |-> TRUE, reason |-> "scheduled",
              endsAt |-> getNextWindowEnd(config.end, t, timezone)]
        ELSE [active |-> FALSE, reason |-> "none", endsAt |-> NULL]

\* isDndActive's write: an expired adhoc record is cleared
adhocAfterRead(adhoc, t) ==
  IF adhoc # NULL /\ adhoc <= t THEN NULL ELSE adhoc

(***************************************************************************)
(* Job store                                                               *)
(***************************************************************************)
ClaimLimit == 10     \* tick: claimDueJobs({ now, limit: 10 })

\* mutation of DueIds: the WHERE clause without `enabled = 1`
DueIdsAnyFlag(tbl, t) == {i \in DOMAIN tbl : ~tbl[i].removed /\ tbl[i].nextRunAt <= t}

\* the rows selectDue's WHERE clause matches (a removed row is not in the table)
DueIds(tbl, t) ==
  {i \in DOMAIN tbl : ~tbl[i].removed /\ tbl[i].enabled /\ tbl[i].nextRunAt <= t}

\* every ordering of the ids in S that is ascending in next_run_at
\* (SQLite leaves the order of ties open)
OrderedByNextRun(tbl, S) ==
  {s \in [1..Cardinality(S) -> S] :
     /\ \A a, b \in 1..Cardinality(S) : a # b => s[a] # s[b]
     /\ \A a, b \in 1..Cardinality(S) : a < b => tbl[s[a]].nextRunAt <= tbl[s[b]].nextRunAt}

\* selectDue.all(BOB_ID, now, limit): the possible result lists (of ids)
selectDue(tbl, t, limit) ==
  {SubSeq(s, 1, Min(limit, Len(s))) : s \in OrderedByNextRun(tbl, DueIds(tbl, t))}

\* mutation of disableAtRows: the claim transaction forgets the flip
disableAtRowsSkipped(tbl, ids) == tbl

\* the UPDATE inside claimDueJobs: rows of kind "at" among ids are disabled
disableAtRows(tbl, ids) ==
  [i \in DOMAIN tbl |->
     IF i \in ids /\ tbl[i].scheduleKind = "at"
       THEN [tbl[i] EXCEPT !.enabled = FALSE]
       ELSE tbl[i]]

\* claimDueJobs({now, limit}): the possible (returned rows, table after) pairs.
\* A returned JobRecord is kept as its id, its next_run_at, its last_run_at
\* and its enabled flag; the other columns are never updated and are read
\* from the table.
claimDueJobs(tbl, t, limit) ==
  {[rows |-> [k \in 1..Len(s) |->
                [id |-> s[k],
                 nextRunAt |-> tbl[s[k]].nextRunAt,
                 lastRunAt |-> tbl[s[k]].lastRunAt,
                 enabled |-> tbl[s[k]].enabled /\ tbl[s[k]].scheduleKind # "at"]],
    tbl |-> disableAtRows(tbl, {s[k] : k \in 1..Len(s)})] : s \in selectDue(tbl, t, limit)}

\* updateAfterRun({id, lastRunAt, nextRunAt, enabled})
updateAfterRun(tbl, id, lastRunAt, nextRunAt, enabled) ==
  [i \in DOMAIN tbl |->
     IF i = id /\ ~tbl[i].removed
       THEN [tbl[i] EXCEPT !.lastRunAt = lastRunAt, !.nextRunAt = nextRunAt, !.enabled = enabled]
       ELSE tbl[i]]

\* the at-time specs addJob is called with at time t
AtSpecs(t) == {0, t + 1}

\* the specs addJob is called with for a schedule kind at time t
JobSpecs(kind, t) ==
  CASE kind = "at" -> AtSpecs(t)
    [] kind = "every" -> {EveryInterval}
    [] OTHER -> {CronPeriod}

\* the row addJob inserts
newJob(kind, spec, type, urgent, enabled, t) ==
  [scheduleKind |-> kind, scheduleSpec |-> spec, jobType |-> type,
   urgent |-> urgent, enabled |-> enabled,
   nextRunAt |-> computeNextRunAt(kind, spec, t),
   lastRunAt |-> NULL, removed |-> FALSE]

\* addJob(input) with input.enabled as given
addJob(enabled) ==
  /\ nextJobId <= MaxJobs
  /\ \E kind \in ScheduleKinds, type \in JobTypes, urgent \in BOOLEAN :
     \E spec \in JobSpecs(kind, now) :
       /\ type = "script" => ~urgent
       /\ jobs' = [i \in DOMAIN jobs \cup {nextJobId} |->
                     IF i = nextJobId THEN newJob(kind, spec, type, urgent, enabled, now)
                     ELSE jobs[i]]
  /\ nextJobId' = nextJobId + 1
  /\ UNCHANGED <<now, adhocUntil, pc, due, tickNow, ran, succeeded, tickFlags>>

\* addJob(input): kind, type and urgency of the payload come from the caller
AddJob ==
  /\ UNCHANGED <<eventVars, replyVars, indexVars, auxVars>>
  /\ addJob(TRUE)

\* addJob(input) with enabled: false
AddJobDisabled ==
  /\ UNCHANGED <<eventVars, replyVars, indexVars, auxVars>>
  /\ addJob(FALSE)

\* removeJob(id): DELETE FROM jobs WHERE id = ?
RemoveJob ==
  /\ UNCHANGED <<eventVars, replyVars, indexVars, auxVars>>
  /\ \E id \in DOMAIN jobs :
       /\ ~jobs[id].removed
       /\ jobs' = [jobs EXCEPT ![id].removed = TRUE]
  /\ UNCHANGED <<now, nextJobId, adhocUntil, pc, due, tickNow, ran, succeeded, tickFlags>>

(***************************************************************************)
(* Environment of the scheduler                                            *)
(***************************************************************************)
AdvanceTime ==
  /\ UNCHANGED <<eventVars, replyVars, indexVars, auxVars>>
  /\ now < MaxTime
  /\ now' = now + 1
  /\ UNCHANGED <<jobs, nextJobId, adhocUntil, pc, due, tickNow, ran, succeeded, tickFlags>>

AdhocDuration == 1   \* the durationMs the dnd command is given

\* setAdhocDnd(dataRoot, durationMs)
SetAdhocDnd ==
  /\ UNCHANGED <<eventVars, replyVars, indexVars, auxVars>>
  /\ adhocUntil' = now + AdhocDuration
  /\ adhocUntil' # adhocUntil
  /\ UNCHANGED <<now, jobs, nextJobId, pc, due, tickNow, ran, succeeded, tickFlags>>

(***************************************************************************)
(* Scheduler tick                                                          *)
(***************************************************************************)
\* mutation of tickMayStart: the flag is not looked at
tickMayStartAlways(run) == TRUE

\* tick: `if (running || stopped) return` (the scheduler is not stopped)
tickMayStart(run) == ~run

\* tick: `running = true` and the body begins
startBody(p) ==
  /\ running' = [running EXCEPT ![p] = TRUE]
  /\ bodies' = [bodies EXCEPT ![p] = Min(2, @ + 1)]
  /\ pc' = [pc EXCEPT ![p] = "claim"]

\* tick's finally: `running = false`
endBody(p) ==
  /\ running' = [running EXCEPT ![p] = FALSE]
  /\ bodies' = [bodies EXCEPT ![p] = Max(0, @ - 1)]
  /\ rejected' = [rejected EXCEPT ![p] = FALSE]

\* tick called while no tick of the process is running
TickStart(p) ==
  /\ UNCHANGED <<eventVars, replyVars, indexVars, auxVars>>
  /\ pc[p] = "idle"
  /\ tickMayStart(running[p])
  /\ startBody(p)
  /\ UNCHANGED <<now, jobs, nextJobId, adhocUntil, due, tickNow, ran, succeeded, rejected>>

\* tick called by the timer, a signal or the file watcher while a tick of the
\* process is running, at any of its awaits
TickWhileRunning(p) ==
  /\ UNCHANGED <<eventVars, replyVars, indexVars, auxVars>>
  /\ pc[p] # "idle"
  /\ IF tickMayStart(running[p])
       THEN /\ startBody(p)
            /\ UNCHANGED rejected
       ELSE /\ ~rejected[p]
            /\ rejected' = [rejected EXCEPT ![p] = TRUE]
            /\ UNCHANGED <<running, bodies, pc>>
  /\ UNCHANGED <<now, jobs, nextJobId, adhocUntil, due, tickNow, ran, succeeded>>

\* tick: `const now = new Date(); const due = store.claimDueJobs(...)`,
\* leaving the loop (and the tick) when nothing is due
ClaimDue(p) ==
  /\ UNCHANGED <<eventVars, replyVars, indexVars, auxVars>>
  /\ pc[p] = "claim"
  /\ \E r \in claimDueJobs(jobs, now, ClaimLimit) :
       /\ jobs' = r.tbl
       /\ due' = [due EXCEPT ![p] = r.rows]
       /\ pc' = [pc EXCEPT ![p] = IF r.rows = <<>> THEN "idle" ELSE "job"]
       /\ tickNow' = [tickNow EXCEPT ![p] = IF r.rows = <<>> THEN 0 ELSE now]
       /\ IF r.rows = <<>> THEN endBody(p) ELSE UNCHANGED tickFlags
  /\ UNCHANGED <<now, nextJobId, adhocUntil, ran, succeeded>>

\* mutation of writeBack: the enabled flag of the claimed record is written back
writeBackAsClaimed(tbl, job, tNow, nextRun) ==
  updateAfterRun(tbl, job.id, tNow,
                 IF nextRun # NULL THEN nextRun
                 ELSE IF job.nextRunAt # NULL THEN job.nextRunAt ELSE tNow,
                 job.enabled)

\* tick's success callback: the writeback after executeJob returned nextRun
writeBack(tbl, job, tNow, nextRun) ==
  updateAfterRun(tbl, job.id, tNow,
                 IF nextRun # NULL THEN nextRun
                 ELSE IF job.nextRunAt # NULL THEN job.nextRunAt ELSE tNow,
                 nextRun # NULL)

\* mutation of dndApplies: the urgent flag of the payload is not looked at
dndAppliesIgnoringUrgent(row) ==
  row.jobType \in {"send_message", "agent_turn"}

\* executeJob's DND gate: TRUE when isDndActive is consulted for the job
dndApplies(row) ==
  ~row.urgent /\ row.jobType \in {"send_message", "agent_turn"}

\* what remains of the tick after the job at the head of due is settled
advance(p) ==
  /\ due' = [due EXCEPT ![p] = Tail(due[p])]
  /\ pc' = [pc EXCEPT ![p] = IF Tail(due[p]) = <<>> THEN "claim" ELSE "job"]

\* executeJob, up to its first await: either the DND deferral (executeJob
\* returns endsAt and the tick writes it back) or the start of the job body
ExecuteJobStart(p) ==
  /\ UNCHANGED <<eventVars, replyVars, indexVars, auxVars>>
  /\ pc[p] = "job"
  /\ LET job == Head(due[p])
         row == jobs[job.id]
         status == isDndActive(DndConfig, adhocUntil, SchedTimezone, now)
     IN IF dndApplies(row)
          THEN /\ adhocUntil' = adhocAfterRead(adhocUntil, now)
               /\ IF status.active
                    THEN /\ jobs' = writeBack(jobs, job, tickNow[p], status.endsAt)
                         /\ advance(p)
                         /\ ran' = ran
                    ELSE /\ pc' = [pc EXCEPT ![p] = "exec"]
                         /\ ran' = [ran EXCEPT ![job.id] = Min(2, @ + 1)]
                         /\ UNCHANGED <<jobs, due>>
          ELSE /\ pc' = [pc EXCEPT ![p] = "exec"]
               /\ ran' = [ran EXCEPT ![job.id] = Min(2, @ + 1)]
               /\ UNCHANGED <<jobs, due, adhocUntil>>
  /\ UNCHANGED <<now, nextJobId, tickNow, succeeded, tickFlags>>

\* the job body returned: executeJob computes the next run and the tick
\* writes it back
ExecuteJobReturn(p) ==
  /\ UNCHANGED <<eventVars, replyVars, indexVars, auxVars>>
  /\ pc[p] = "exec"
  /\ LET job == Head(due[p])
         row == jobs[job.id]
         nextRun == IF row.scheduleKind = "at" THEN NULL
                    ELSE computeNextRunAt(row.scheduleKind, row.scheduleSpec, now)
     IN /\ jobs' = writeBack(jobs, job, tickNow[p], nextRun)
        /\ succeeded' = [succeeded EXCEPT ![job.id] = TRUE]
  /\ advance(p)
  /\ UNCHANGED <<now, nextJobId, adhocUntil, tickNow, ran, tickFlags>>

\* the job body threw: the tick's error callback only logs
ExecuteJobThrow(p) ==
  /\ UNCHANGED <<eventVars, replyVars, indexVars, auxVars>>
  /\ pc[p] = "exec"
  /\ advance(p)
  /\ UNCHANGED <<now, jobs, nextJobId, adhocUntil, tickNow, ran, succeeded, tickFlags>>

\* the process dies and is restarted: what it held in memory is gone
Crash(p) ==
  /\ UNCHANGED <<eventVars, replyVars, indexVars, auxVars>>
  /\ pc[p] # "idle"
  /\ pc' = [pc EXCEPT ![p] = "idle"]
  /\ due' = [due EXCEPT ![p] = <<>>]
  /\ tickNow' = [tickNow EXCEPT ![p] = 0]
  /\ running' = [running EXCEPT ![p] = FALSE]
  /\ bodies' = [bodies EXCEPT ![p] = 0]
  /\ rejected' = [rejected EXCEPT ![p] = FALSE]
  /\ UNCHANGED <<now, jobs, nextJobId, adhocUntil, ran, succeeded>>

(***************************************************************************)
(* executeJob: what one call sends and spawns                               *)
(***************************************************************************)
SystemChat == 0      \* the chatId of a system job
UserChat == 1        \* the chatId of a user's chat

\* path.resolve(options.globalRoot, "scripts"), as its segments
resolvedScriptsRoot == <<"home", "bob", "scripts">>

\* the segments a payload.script is made of
Segments == {"..", ".", "home", "bob", "scripts", "scripts2", "a.ts"}

\* the values of payload.script: up to MaxPathLen segments
ScriptInputs == UNION {[1..n -> Segments] : n \in 1..MaxPathLen}

\* path normalisation: "." is dropped, ".." removes the segment before it
RECURSIVE normalize(_, _)
normalize(done, rest) ==
  IF rest = <<>> THEN done
  ELSE LET seg == Head(rest)
       IN IF seg = "." THEN normalize(done, Tail(rest))
          ELSE IF seg = ".."
            THEN normalize(IF done = <<>> THEN <<>> ELSE SubSeq(done, 1, Len(done) - 1),
                           Tail(rest))
            ELSE normalize(Append(done, seg), Tail(rest))

\* path.resolve(scriptsRoot, payload.script)
resolve(root, script, absolute) ==
  IF absolute THEN normalize(<<>>, script) ELSE normalize(root, script)

\* a.startsWith(b) for two segment names
nameStartsWith(a, b) == a = b \/ (a = "scripts2" /\ b = "scripts")

\* mutation of insideRoot: the prefix is compared without path.sep
insideRootNoSep(scriptPath, root) ==
  /\ Len(scriptPath) >= Len(root)
  /\ \A k \in 1..(Len(root) - 1) : scriptPath[k] = root[k]
  /\ nameStartsWith(scriptPath[Len(root)], root[Len(root)])

\* scriptPath.startsWith(resolvedScriptsRoot + path.sep) || scriptPath === resolvedScriptsRoot
insideRoot(scriptPath, root) ==
  /\ Len(scriptPath) >= Len(root)
  /\ \A k \in 1..Len(root) : scriptPath[k] = root[k]

\* the JobRecords executeJob is called with: text stands for a payload
\* text / prompt that is not blank
ExecJobs ==
  {[chatId |-> c, jobType |-> "send_message", urgent |-> u, text |-> t,
    script |-> <<>>, absolute |-> FALSE, notify |-> FALSE] :
      c \in {SystemChat, UserChat}, u \in BOOLEAN, t \in BOOLEAN}
  \cup
  {[chatId |-> c, jobType |-> "agent_turn", urgent |-> u, text |-> t,
    script |-> <<>>, absolute |-> FALSE, notify |-> FALSE] :
      c \in {SystemChat, UserChat}, u \in BOOLEAN, t \in BOOLEAN}
  \cup
  {[chatId |-> c, jobType |-> "script", urgent |-> FALSE, text |-> FALSE,
    script |-> sc, absolute |-> ab, notify |-> n] :
      c \in {SystemChat, UserChat}, sc \in ScriptInputs \cup {<<>>},
      ab \in BOOLEAN, n \in BOOLEAN}

\* sendTelegramMessage(options.transport, job.chatId, ...)
sendTelegramMessage(chatId) == outbox' = Append(outbox, chatId)

\* executeJob up to its first await: the DND gate, the payload checks, the
\* send of a send_message job, the path check and spawn of a script job
ExecuteJobBegin ==
  /\ UNCHANGED <<schedVars, eventVars, replyVars, indexVars, lifeVars, bootVars, dndVars, searchVars, nextRunVars, extVars>>
  /\ exPc = "start"
  /\ IF ~exJob.urgent /\ exJob.jobType \in {"send_message", "agent_turn"} /\ exDnd
       THEN /\ exPc' = "deferred"
            /\ UNCHANGED <<exError, spawned, outbox>>
       ELSE CASE exJob.jobType = "send_message" ->
                   IF ~exJob.text
                     THEN /\ exPc' = "threw"
                          /\ exError' = "send_message payload missing text"
                          /\ UNCHANGED <<spawned, outbox>>
                     ELSE /\ sendTelegramMessage(exJob.chatId)
                          /\ \E ok \in BOOLEAN :
                               /\ exPc' = IF ok THEN "done" ELSE "threw"
                               /\ exError' = IF ok THEN "" ELSE "send failed"
                          /\ UNCHANGED spawned
              [] exJob.jobType = "agent_turn" ->
                   IF ~exJob.text
                     THEN /\ exPc' = "threw"
                          /\ exError' = "agent_turn payload missing prompt"
                          /\ UNCHANGED <<spawned, outbox>>
                     ELSE /\ exPc' = "agent"
                          /\ UNCHANGED <<exError, spawned, outbox>>
              [] exJob.jobType = "script" ->
                   LET scriptPath == resolve(resolvedScriptsRoot, exJob.script, exJob.absolute)
                   IN IF exJob.script = <<>>
                        THEN /\ exPc' = "threw"
                             /\ exError' = "script payload missing script path"
                             /\ UNCHANGED <<spawned, outbox>>
                        ELSE IF ~insideRoot(scriptPath, resolvedScriptsRoot)
                          THEN /\ exPc' = "threw"
                               /\ exError' = "Script path escapes scripts root"
                               /\ UNCHANGED <<spawned, outbox>>
                          ELSE \E exists \in BOOLEAN :
                                 IF ~exists
                                   THEN /\ exPc' = "threw"
                                        /\ exError' = "Script not found"
                                        /\ UNCHANGED <<spawned, outbox>>
                                   ELSE /\ spawned' = scriptPath
                                        /\ exPc' = "script"
                                        /\ UNCHANGED <<exError, outbox>>
  /\ UNCHANGED <<exJob, exDnd>>

\* streamAgentReply of an agent_turn job returned: it sent its reply to
\* options.chatId, or the run produced nothing to show
AgentReplyReturns ==
  /\ UNCHANGED <<schedVars, eventVars, replyVars, indexVars, lifeVars, bootVars, dndVars, searchVars, nextRunVars, extVars>>
  /\ exPc = "agent"
  /\ \E replied \in BOOLEAN :
       IF replied THEN sendTelegramMessage(exJob.chatId) ELSE UNCHANGED outbox
  /\ exPc' = "done"
  /\ UNCHANGED <<exJob, exDnd, exError, spawned>>

\* the subprocess of a script job exited
ScriptExits ==
  /\ UNCHANGED <<schedVars, eventVars, replyVars, indexVars, lifeVars, bootVars, dndVars, searchVars, nextRunVars, extVars>>
  /\ exPc = "script"
  /\ \E exitCode \in {0, 1}, stdout \in BOOLEAN :
       IF exitCode # 0
         THEN IF exJob.notify THEN sendTelegramMessage(exJob.chatId) ELSE UNCHANGED outbox
         ELSE IF exJob.notify /\ stdout
           THEN sendTelegramMessage(exJob.chatId)
           ELSE UNCHANGED outbox
  /\ exPc' = "done"
  /\ UNCHANGED <<exJob, exDnd, exError, spawned>>

(***************************************************************************)
(* Daemon startup: the crash marker                                         *)
(***************************************************************************)
CleanCodes == {0, 130, 143}   \* checkForCrash: clean exit, SIGINT, SIGTERM
ExitCodes == {0, 1, 130, 143} \* the codes the exit handler is called with

\* checkForCrash(dataRoot, logsRoot): the exit code of the crash, or NULL
checkForCrash(m) == IF m = NULL \/ m \in CleanCodes THEN NULL ELSE m

\* writeExitInfo(dataRoot, exitCode)
writeExitInfo(exitCode) == marker' = exitCode

\* main, from checkForCrash to eventStore.close(): the daemon_crashed event
\* is added for allowlist[0] when there is one
StartupCheck ==
  /\ UNCHANGED <<schedVars, eventVars, replyVars, indexVars, lifeVars, execVars, dndVars, searchVars, nextRunVars, extVars>>
  /\ bootPc = "boot"
  /\ IF checkForCrash(marker) # NULL
       THEN /\ IF allowlist # <<>>
                 THEN /\ crashEvents' = Append(crashEvents, allowlist[1])
                      /\ queued' = TRUE
                 ELSE UNCHANGED <<crashEvents, queued>>
            /\ bootPc' = "clear"
       ELSE /\ bootPc' = "run"
            /\ UNCHANGED <<crashEvents, queued>>
  /\ UNCHANGED <<marker, allowlist, boots>>

\* main: clearExitInfo(config.dataRoot) writes a marker with exit code 0
ClearExitInfo ==
  /\ UNCHANGED <<schedVars, eventVars, replyVars, indexVars, lifeVars, execVars, dndVars, searchVars, nextRunVars, extVars>>
  /\ bootPc = "clear"
  /\ writeExitInfo(0)
  /\ bootPc' = "run"
  /\ UNCHANGED <<allowlist, boots, crashEvents, queued>>

\* the process exits with a code and the exit handler writes the marker
Exit ==
  /\ UNCHANGED <<schedVars, eventVars, replyVars, indexVars, lifeVars, execVars, dndVars, searchVars, nextRunVars, extVars>>
  /\ bootPc = "run"
  /\ \E code \in ExitCodes : writeExitInfo(code)
  /\ bootPc' = "down"
  /\ UNCHANGED <<allowlist, boots, crashEvents, queued>>

\* the process is killed (SIGKILL, power loss): no exit handler runs
Kill ==
  /\ UNCHANGED <<schedVars, eventVars, replyVars, indexVars, lifeVars, execVars, dndVars, searchVars, nextRunVars, extVars>>
  /\ bootPc \in {"clear", "run"}
  /\ bootPc' = "down"
  /\ UNCHANGED <<marker, allowlist, boots, crashEvents, queued>>

\* the daemon is started again
Start ==
  /\ UNCHANGED <<schedVars, eventVars, replyVars, indexVars, lifeVars, execVars, dndVars, searchVars, nextRunVars, extVars>>
  /\ bootPc = "down"
  /\ boots < MaxBoots
  /\ boots' = boots + 1
  /\ bootPc' = "boot"
  /\ queued' = FALSE
  /\ UNCHANGED <<marker, allowlist, crashEvents>>

(***************************************************************************)
(* DND: one process evaluating isDndActive while the CLI sets ad-hoc DND     *)
(***************************************************************************)
\* the status before isDndActive returned
NoStatus == [active |-> FALSE, reason |-> "none", endsAt |-> NULL]

Minutes == 0..(DayLen - 1)             \* the values of config.start and config.end
Instants == 0..(DndDays * DayLen - 1)  \* the values of now
AdhocDurations == {1, 2}               \* the durationMs of the dnd command

\* isDndActive: `const state = loadDndState(dataRoot)`
LoadDndState ==
  /\ UNCHANGED <<schedVars, eventVars, replyVars, indexVars, lifeVars, execVars, bootVars, searchVars, nextRunVars, extVars>>
  /\ dPc = "idle"
  /\ dLoaded' = dndFile
  /\ dPc' = "loaded"
  /\ UNCHANGED <<dConfig, dZone, dNow, dndFile, dStatus>>

\* isDndActive after loadDndState: an expired record makes clearAdhocDnd
\* write { adhoc: null }, and the status is returned
IsDndActiveReturns ==
  /\ UNCHANGED <<schedVars, eventVars, replyVars, indexVars, lifeVars, execVars, bootVars, searchVars, nextRunVars, extVars>>
  /\ dPc = "loaded"
  /\ dndFile' = IF dLoaded # NULL /\ dLoaded <= dNow THEN NULL ELSE dndFile
  /\ dStatus' = isDndActive(dConfig, dLoaded, dZone, dNow)
  /\ dPc' = "done"
  /\ UNCHANGED <<dConfig, dZone, dNow, dLoaded>>

\* the next isDndActive call of the process
NextDndCall ==
  /\ UNCHANGED <<schedVars, eventVars, replyVars, indexVars, lifeVars, execVars, bootVars, searchVars, nextRunVars, extVars>>
  /\ dPc = "done"
  /\ dPc' = "idle"
  /\ dLoaded' = NULL
  /\ dStatus' = NoStatus
  /\ UNCHANGED <<dConfig, dZone, dNow, dndFile>>

\* setAdhocDnd(dataRoot, durationMs) in the CLI process
CliSetAdhocDnd ==
  /\ UNCHANGED <<schedVars, eventVars, replyVars, indexVars, lifeVars, execVars, bootVars, searchVars, nextRunVars, extVars>>
  /\ \E d \in AdhocDurations :
       /\ dndFile # dNow + d
       /\ dndFile' = dNow + d
  /\ UNCHANGED <<dConfig, dZone, dNow, dPc, dLoaded, dStatus>>

(***************************************************************************)
(* Recall search: reciprocal rank fusion                                    *)
(***************************************************************************)
RrfK == 60                 \* search: `const k = 60`
ChunkIds == 1..MaxHits     \* the ids of the chunks a list can name

\* the lists a search function returns: chunk ids without repetition
HitLists ==
  UNION {{l \in [1..n -> ChunkIds] : \A a, b \in 1..n : a # b => l[a] # l[b]} :
           n \in 0..MaxHits}

\* the ids of a list
hitIds(list) == {list[p] : p \in DOMAIN list}

\* the position of id in list, counted from 1
indexOf(list, id) == CHOOSE p \in DOMAIN list : list[p] = id

\* a score is kept as the fraction num / den
scoreGreater(a, b) == a.num * b.den > b.num * a.den

\* 1 / (k + i + 1) for the entry at position p = i + 1
rrf(p) == [num |-> 1, den |-> RrfK + p]

\* the sum of two fractions
addScores(a, b) == [num |-> a.num * b.den + b.num * a.den, den |-> a.den * b.den]

\* mutation of fusedScore: a second list does not add to the score
fusedScoreFirstOnly(fts, vec, id) ==
  IF id \in hitIds(fts) THEN rrf(indexOf(fts, id)) ELSE rrf(indexOf(vec, id))

\* the score the two loops leave in the map for id
fusedScore(fts, vec, id) ==
  IF id \in hitIds(fts) /\ id \in hitIds(vec)
    THEN addScores(rrf(indexOf(fts, id)), rrf(indexOf(vec, id)))
    ELSE IF id \in hitIds(fts) THEN rrf(indexOf(fts, id)) ELSE rrf(indexOf(vec, id))

\* the entry of the map for id: entry.types.size > 1 gives hybrid
mapEntry(fts, vec, id) ==
  LET score == fusedScore(fts, vec, id)
  IN [id |-> id, num |-> score.num, den |-> score.den,
      matchType |-> IF id \in hitIds(fts) /\ id \in hitIds(vec) THEN "hybrid"
                    ELSE IF id \in hitIds(fts) THEN "fts" ELSE "vector"]

\* Array.from(scores.values()): the entries in insertion order
mapValues(fts, vec) ==
  LET order == fts \o SelectSeq(vec, LAMBDA h : h \notin hitIds(fts))
  IN [p \in DOMAIN order |-> mapEntry(fts, vec, order[p])]

\* entries.sort((a, b) => b.score - a.score): descending, stable
sortByScore(entries) ==
  LET n == Len(entries)
      before(a, b) == \/ scoreGreater(entries[a], entries[b])
                      \/ (~scoreGreater(entries[b], entries[a]) /\ a < b)
      perm == CHOOSE f \in [1..n -> 1..n] :
                /\ \A a, b \in 1..n : a # b => f[a] # f[b]
                /\ \A a, b \in 1..n : a < b => before(f[a], f[b])
  IN [p \in 1..n |-> entries[perm[p]]]

\* list.slice(0, limit).map(h => ({ ...h, matchType })): a hit keeps the
\* score of its own search, which is not modelled (0)
sliceAs(list, limit, matchType) ==
  [p \in 1..Min(limit, Len(list)) |->
     [id |-> list[p], num |-> 0, den |-> 1, matchType |-> matchType]]

\* search(store, query, { limit }) after the two searches returned
search(fts, vec, limit) ==
  IF fts = <<>> /\ vec = <<>> THEN <<>>
  ELSE IF fts = <<>> THEN sliceAs(vec, limit, "vector")
  ELSE IF vec = <<>> THEN sliceAs(fts, limit, "fts")
  ELSE LET sorted == sortByScore(mapValues(fts, vec))
       IN SubSeq(sorted, 1, Min(limit, Len(sorted)))

Search ==
  /\ UNCHANGED <<schedVars, eventVars, replyVars, indexVars>>
  /\ UNCHANGED <<lifeVars, execVars, bootVars, dndVars, nextRunVars, extVars>>
  /\ searchPc = "ready"
  /\ searchResult' = search(ftsResults, vecResults, searchLimit)
  /\ searchPc' = "done"
  /\ UNCHANGED <<ftsResults, vecResults, searchLimit>>

(***************************************************************************)
(* computeNextRunAt at two times                                            *)
(***************************************************************************)
\* the valid specs of a kind: any at-time, a positive interval, a cron
\* expression with a positive period
ValidSpecs(kind) == IF kind = "at" THEN 0..MaxFrom ELSE 1..MaxFrom

ComputeNextRunAt ==
  /\ UNCHANGED <<schedVars, eventVars, replyVars, indexVars>>
  /\ UNCHANGED <<lifeVars, execVars, bootVars, dndVars, searchVars, extVars>>
  /\ nrResult = <<>>
  /\ nrResult' = <<computeNextRunAt(nrKind, nrSpec, nrFrom[1]),
                   computeNextRunAt(nrKind, nrSpec, nrFrom[2])>>
  /\ UNCHANGED <<nrKind, nrSpec, nrFrom>>

(***************************************************************************)
(* parseSchedule                                                           *)
(*                                                                         *)
(* An input string is a sequence of tokens: a word, a run of digits (its   *)
(* value and its number of digits), a run of whitespace, a colon, or a     *)
(* whole ISO date.  An instant is a number of days since the epoch and a   *)
(* number of milliseconds within the day, so that the range of Date fits.  *)
(* The process runs in UTC.                                                *)
(***************************************************************************)
MsPerSecond == 1000
MsPerMinute == 60000
MsPerHour == 3600000
MsPerDay == 86400000

\* the largest time value of a Date is 8.64e15 ms: this many days from the epoch
MaxDateDays == 100000000

Inst(d, ms) == [d |-> d, ms |-> ms]

\* the time value of an Invalid Date
NaNTime == Inst(-1, 0)

Word(w) == [k |-> "word", w |-> w, n |-> 0, len |-> 0]
Num(n, len) == [k |-> "num", w |-> "", n |-> n, len |-> len]
Space == [k |-> "space", w |-> "", n |-> 0, len |-> 0]
Colon == [k |-> "colon", w |-> "", n |-> 0, len |-> 0]
IsoDate(d) == [k |-> "iso", w |-> "", n |-> d, len |-> 0]

toLowerCase(w) ==
  CASE w = "H" -> "h"
    [] w = "EVERY" -> "every"
    [] w = "PM" -> "pm"
    [] OTHER -> w

\* String.prototype.trim
trim(s) ==
  LET idx == {i \in 1..Len(s) : s[i] # Space}
  IN IF idx = {} THEN <<>>
     ELSE SubSeq(s, CHOOSE i \in idx : \A j \in idx : i <= j,
                    CHOOSE i \in idx : \A j \in idx : i >= j)

isWord(tok, ws) == tok.k = "word" /\ toLowerCase(tok.w) \in ws

DurationUnits == {"s", "m", "h", "d"}
RelativeUnits == {"second", "minute", "hour", "day", "week"}
Frequencies ==
  {"day", "week", "month", "monday", "tuesday", "wednesday", "thursday", "friday",
   "saturday", "sunday"}

\* the unit word of RELATIVE_TIME_RE without its optional plural s
singular(w) ==
  CASE w = "seconds" -> "second"
    [] w = "minutes" -> "minute"
    [] w = "hours" -> "hour"
    [] w = "days" -> "day"
    [] w = "weeks" -> "week"
    [] OTHER -> w

\* /^(\d+)(s|m|h|d)$/i
DURATION_RE(s) == Len(s) = 2 /\ s[1].k = "num" /\ isWord(s[2], DurationUnits)

\* /^every\s+(\d+)(s|m|h|d)$/i
EVERY_DURATION_RE(s) ==
  Len(s) = 4 /\ isWord(s[1], {"every"}) /\ s[2] = Space /\ DURATION_RE(SubSeq(s, 3, 4))

\* /^(?:in\s+)?(\d+)\s*(second|minute|hour|day|week)s?$/i : the input after `in `
afterIn(s) ==
  IF Len(s) >= 2 /\ isWord(s[1], {"in"}) /\ s[2] = Space THEN SubSeq(s, 3, Len(s)) ELSE s

relativeBody(r) ==
  /\ Len(r) \in {2, 3}
  /\ r[1].k = "num"
  /\ Len(r) = 3 => r[2] = Space
  /\ r[Len(r)].k = "word"
  /\ singular(toLowerCase(r[Len(r)].w)) \in RelativeUnits

RELATIVE_TIME_RE(s) == relativeBody(afterIn(s))

\* (\d{1,2})(:\d{2})?\s*(am|pm)?$ : the groups, and whether the text matches
timeOf(s) ==
  LET hasHour == Len(s) >= 1 /\ s[1].k = "num" /\ s[1].len \in {1, 2}
      hasMin == Len(s) >= 3 /\ s[2] = Colon /\ s[3].k = "num" /\ s[3].len = 2
      rest == IF hasMin THEN SubSeq(s, 4, Len(s)) ELSE SubSeq(s, 2, Len(s))
      tail == IF rest # <<>> /\ rest[1] = Space THEN Tail(rest) ELSE rest
      hasAmpm == Len(tail) = 1 /\ isWord(tail[1], {"am", "pm"})
  IN [ok |-> hasHour /\ (hasAmpm \/ tail = <<>>),
      hour |-> IF hasHour THEN s[1].n ELSE 0,
      minute |-> IF hasMin THEN s[3].n ELSE 0,
      ampm |-> IF hasAmpm THEN toLowerCase(tail[1].w) ELSE "none"]

\* /^every\s+(day|...|sunday)\s+at\s+(\d{1,2})(:\d{2})?\s*(am|pm)?$/i
EVERY_NATURAL_RE(s) ==
  /\ Len(s) >= 7
  /\ isWord(s[1], {"every"}) /\ s[2] = Space
  /\ isWord(s[3], Frequencies) /\ s[4] = Space
  /\ isWord(s[5], {"at"}) /\ s[6] = Space
  /\ timeOf(SubSeq(s, 7, Len(s))).ok

\* the input after an optional `at `
afterAt(s) ==
  IF Len(s) >= 2 /\ isWord(s[1], {"at"}) /\ s[2] = Space THEN SubSeq(s, 3, Len(s)) ELSE s

\* /^tomorrow\s+(?:at\s+)?(\d{1,2})(:\d{2})?\s*(am|pm)?$/i, and the same for today
dayWordRe(word, s) ==
  /\ Len(s) >= 3
  /\ isWord(s[1], {word}) /\ s[2] = Space
  /\ timeOf(afterAt(SubSeq(s, 3, Len(s)))).ok

TOMORROW_RE(s) == dayWordRe("tomorrow", s)
TODAY_RE(s) == dayWordRe("today", s)

\* /^(?:at\s+)?(\d{1,2})(:\d{2})?\s*(am|pm)$/i
EXACT_TIME_RE(s) == timeOf(afterAt(s)).ok /\ timeOf(afterAt(s)).ampm # "none"

\* /^cron\s+(.+)$/i
CRON_PREFIX_RE(s) == Len(s) >= 3 /\ isWord(s[1], {"cron"}) /\ s[2] = Space

unitMs(unit) ==
  CASE unit = "s" -> MsPerSecond
    [] unit = "m" -> MsPerMinute
    [] unit = "h" -> MsPerHour
    [] unit = "d" -> MsPerDay

\* value * unitMs(unit) milliseconds, as days and milliseconds
parseDurationToMs(value, unit) ==
  LET perDay == MsPerDay \div unitMs(unit)
  IN Inst(value \div perDay, (value % perDay) * unitMs(unit))

\* Date.now() + ms
plusMs(t, dur) ==
  Inst(t.d + dur.d + ((t.ms + dur.ms) \div MsPerDay), (t.ms + dur.ms) % MsPerDay)

\* new Date(v) keeps v when |v| <= 8.64e15 and is an Invalid Date otherwise
validDate(t) == t # NaNTime /\ (t.d < MaxDateDays \/ (t.d = MaxDateDays /\ t.ms = 0))

Parsed(kind, spec) == [kind |-> kind, spec |-> spec]
ParsedNull == Parsed("null", <<>>)

\* { kind: "at", spec: date.toISOString() }: toISOString throws on an Invalid Date
atISOString(t) == IF validDate(t) THEN Parsed("at", t) ELSE Parsed("RangeError", <<>>)

\* the AM/PM handling
hourOf(time) ==
  IF time.ampm = "pm" /\ time.hour < 12 THEN time.hour + 12
  ELSE IF time.ampm = "am" /\ time.hour = 12 THEN 0
  ELSE time.hour

\* date.setDate(date.getDate() + days); date.setHours(hour, minute, 0, 0)
setHours(t, days, time) ==
  LET ms == hourOf(time) * MsPerHour + time.minute * MsPerMinute
  IN Inst(t.d + days + (ms \div MsPerDay), ms % MsPerDay)

\* target.getTime() <= Date.now()
notAfter(a, b) == a.d < b.d \/ (a.d = b.d /\ a.ms <= b.ms)

\* today at the time, tomorrow when that has passed
todayOrTomorrow(t, time) ==
  IF notAfter(setHours(t, 0, time), t) THEN setHours(t, 1, time) ELSE setHours(t, 0, time)

cronField(frequency) ==
  CASE frequency \in {"week", "monday"} -> "1"
    [] frequency = "tuesday" -> "2"
    [] frequency = "wednesday" -> "3"
    [] frequency = "thursday" -> "4"
    [] frequency = "friday" -> "5"
    [] frequency = "saturday" -> "6"
    [] frequency = "sunday" -> "0"
    [] OTHER -> "*"

\* the five fields of `${minute} ${hour} <day of month> * <day of week>`
cronSpec(frequency, time) ==
  [minute |-> time.minute, hour |-> hourOf(time),
   dom |-> IF frequency = "month" THEN "1" ELSE "*", month |-> "*",
   dow |-> cronField(frequency)]

\* the time values new Date(trimmed) can have: the date of an ISO string; what a
\* string in no standard format yields is left to the implementation
DateParse(trimmed, t) ==
  IF Len(trimmed) = 1 /\ trimmed[1].k = "iso" THEN {Inst(trimmed[1].n, 0)}
  ELSE {NaNTime, Inst(t.d, 0)}

\* unit.startsWith("second") ? "s" : ... : unit.startsWith("week") ? "d" : null
shortUnit(unit) ==
  CASE unit = "second" -> "s"
    [] unit = "minute" -> "m"
    [] unit = "hour" -> "h"
    [] unit \in {"day", "week"} -> "d"

parseSchedule(input, t, date) ==
  LET trimmed == trim(input)
      rel == afterIn(trimmed)
      unit == singular(toLowerCase(rel[Len(rel)].w))
  IN IF CRON_PREFIX_RE(trimmed) THEN Parsed("cron", SubSeq(trimmed, 3, Len(trimmed)))
     ELSE IF EVERY_DURATION_RE(trimmed)
       THEN Parsed("every", <<trimmed[3], Word(toLowerCase(trimmed[4].w))>>)
     ELSE IF DURATION_RE(trimmed)
       THEN atISOString(plusMs(t,
              parseDurationToMs(trimmed[1].n, toLowerCase(trimmed[2].w))))
     ELSE IF RELATIVE_TIME_RE(trimmed)
       THEN atISOString(plusMs(t,
              parseDurationToMs(IF unit = "week" THEN rel[1].n * 7 ELSE rel[1].n,
                                shortUnit(unit))))
     ELSE IF EVERY_NATURAL_RE(trimmed)
       THEN Parsed("cron", cronSpec(toLowerCase(trimmed[3].w),
                                    timeOf(SubSeq(trimmed, 7, Len(trimmed)))))
     ELSE IF TOMORROW_RE(trimmed)
       THEN atISOString(setHours(t, 1, timeOf(afterAt(SubSeq(trimmed, 3, Len(trimmed))))))
     ELSE IF TODAY_RE(trimmed)
       THEN atISOString(todayOrTomorrow(t,
              timeOf(afterAt(SubSeq(trimmed, 3, Len(trimmed))))))
     ELSE IF EXACT_TIME_RE(trimmed)
       THEN atISOString(todayOrTomorrow(t, timeOf(afterAt(trimmed))))
     ELSE IF date # NaNTime THEN atISOString(date)
     ELSE ParsedNull

\* ---- the inputs of parseSchedule ----
digits(n) == IF n < 10 THEN 1 ELSE IF n < 100 THEN 2 ELSE 9

NumValues == (0..MaxCount) \cup {12, MaxDateDays}
NumTokens == {Num(n, digits(n)) : n \in NumValues}
UnitWords == DurationUnits \cup {"H"}

EveryDurationInputs ==
  {<<Word(e), Space, n, Word(u)>> : e \in {"every", "EVERY"}, n \in NumTokens, u \in UnitWords}

BareDurationInputs == {<<n, Word(u)>> : n \in NumTokens, u \in UnitWords}

HourTokens == {Num(n, digits(n)) : n \in {0, 9, 12, 13}}
MinuteParts == {<<>>, <<Colon, Num(5, 2)>>}
AmpmParts == {<<>>, <<Word("am")>>, <<Space, Word("pm")>>, <<Word("PM")>>}

EveryNaturalInputs ==
  {<<Word("every"), Space, Word(f), Space, Word("at"), Space, h>> \o m \o a :
     f \in Frequencies, h \in HourTokens, m \in MinuteParts, a \in AmpmParts}

OtherInputs ==
  {<<Word("in"), Space, n, Space, Word(w)>> :
     n \in {Num(n, 1) : n \in 0..MaxCount}, w \in {"minutes", "week"}}
  \cup {<<Num(2, 1), Word("hours")>>}
  \cup {<<Word(w), Space>> \o at \o <<h>> \o a :
          w \in {"tomorrow", "today"}, at \in {<<>>, <<Word("at"), Space>>},
          h \in {Num(9, 1)}, a \in AmpmParts}
  \cup {at \o <<h>> \o m \o <<Word("pm")>> :
          at \in {<<>>, <<Word("at"), Space>>}, h \in HourTokens, m \in MinuteParts}
  \cup {<<Word("cron"), Space, Word("expr")>>,
        <<Word("cron"), Space, Word("every"), Space, Num(3, 1), Word("m")>>,
        <<Word("every"), Space, Num(3, 1), Space, Word("m")>>,
        <<Word("every"), Space, Word("day")>>,
        <<Word("every"), Space, Word("day"), Space, Word("at"), Space, Num(123, 3)>>,
        <<Word("soon")>>, <<Num(9, 1)>>, <<>>,
        <<IsoDate(20001)>>}

Padded(S) == {<<Space>> \o s \o <<Space>> : s \in S}

ScheduleInputs ==
  EveryDurationInputs \cup BareDurationInputs \cup EveryNaturalInputs \cup OtherInputs
  \cup Padded(BareDurationInputs)

Nows == {Inst(20000, 0), Inst(20000, 9 * MsPerHour + 5 * MsPerMinute)}

ParseSchedule ==
  /\ UNCHANGED <<baseVars, loopVars, tailVars>>
  /\ psPc = "ready"
  /\ \E date \in DateParse(trim(psInput), psNow) :
       /\ psDate' = date
       /\ psResult' = parseSchedule(psInput, psNow, date)
  /\ psPc' = "done"
  /\ UNCHANGED <<psInput, psNow>>

(***************************************************************************)
(* Scheduler lifecycle: timers, wake requests and the stop function         *)
(***************************************************************************)
\* the points where the event loop can run another callback of the process:
\* between ticks, and at the `await executeJob(...)` of a tick
atAwait(p) == pc[p] \in {"idle", "exec"}

\* whether a statement of the job store can still be executed
storeUsable == storeOpen \/ ~closedDbThrows

\* schedule(delayMs) called from scheduleNext: both return when stopped,
\* otherwise the timer is cleared and armed again
scheduleNext == timer' = IF stopped THEN timer ELSE TRUE

\* mutation of requestWakeMayArm: the stopped flag is not looked at
requestWakeMayArmAlways(stop, wake) == ~wake

\* requestWake: `if (stopped) return; if (wakeTimer) return;`
requestWakeMayArm(stop, wake) == ~stop /\ ~wake

\* the finally block of tick after the loop was left by an exception
tickThrows(p) ==
  /\ endBody(p)
  /\ scheduleNext
  /\ pc' = [pc EXCEPT ![p] = "idle"]
  /\ due' = [due EXCEPT ![p] = <<>>]
  /\ tickNow' = [tickNow EXCEPT ![p] = 0]

\* the tick timer fires: `void tick()`
TickTimerFires(p) ==
  /\ UNCHANGED <<eventVars, replyVars, indexVars>>
  /\ timer
  /\ atAwait(p)
  /\ timer' = FALSE
  /\ IF running[p] \/ stopped
       THEN UNCHANGED <<running, bodies, pc>>
       ELSE startBody(p)
  /\ UNCHANGED <<now, jobs, nextJobId, adhocUntil, due, tickNow, ran, succeeded, rejected>>
  /\ UNCHANGED <<stopped, wakeTimer, storeOpen, closedDbThrows, wokeAfterStop, execVars, bootVars, dndVars, searchVars, nextRunVars, extVars>>

\* the loop of tick: claimDueJobs, and the finally block when nothing is due
\* or when the statement raises
StopClaimDue(p) ==
  /\ UNCHANGED <<eventVars, replyVars, indexVars>>
  /\ pc[p] = "claim"
  /\ IF storeUsable
       THEN \E r \in claimDueJobs(jobs, now, ClaimLimit) :
              /\ jobs' = r.tbl
              /\ due' = [due EXCEPT ![p] = r.rows]
              /\ pc' = [pc EXCEPT ![p] = IF r.rows = <<>> THEN "idle" ELSE "job"]
              /\ tickNow' = [tickNow EXCEPT ![p] = IF r.rows = <<>> THEN 0 ELSE now]
              /\ IF r.rows = <<>>
                   THEN endBody(p) /\ scheduleNext
                   ELSE UNCHANGED <<tickFlags, timer>>
       ELSE /\ tickThrows(p)
            /\ UNCHANGED jobs
  /\ UNCHANGED <<now, nextJobId, adhocUntil, ran, succeeded>>
  /\ UNCHANGED <<stopped, wakeTimer, storeOpen, closedDbThrows, wokeAfterStop, execVars, bootVars, dndVars, searchVars, nextRunVars, extVars>>

\* the job body returned and tick's success callback calls updateAfterRun;
\* when the statement raises, the rejection leaves the loop
StopJobReturn(p) ==
  IF storeUsable
    THEN ExecuteJobReturn(p)
    ELSE /\ UNCHANGED <<eventVars, replyVars, indexVars>>
         /\ pc[p] = "exec"
         /\ succeeded' = [succeeded EXCEPT ![Head(due[p]).id] = TRUE]
         /\ tickThrows(p)
         /\ UNCHANGED <<now, jobs, nextJobId, adhocUntil, ran>>
         /\ UNCHANGED <<stopped, wakeTimer, storeOpen, closedDbThrows, wokeAfterStop, execVars, bootVars, dndVars, searchVars, nextRunVars, extVars>>

\* requestWake, called by the SIGUSR1 handler or the file watcher
RequestWake(p) ==
  /\ UNCHANGED <<schedVars, eventVars, replyVars, indexVars>>
  /\ atAwait(p)
  /\ ~wakeTimer \/ (stopped /\ ~wokeAfterStop)
  /\ wakeTimer' = (wakeTimer \/ requestWakeMayArm(stopped, wakeTimer))
  /\ wokeAfterStop' = (wokeAfterStop \/ stopped)
  /\ UNCHANGED <<stopped, timer, storeOpen, closedDbThrows, execVars, bootVars, dndVars, searchVars, nextRunVars, extVars>>

\* the wake-debounce timer fires: `wakeTimer = null; scheduleNext()`
WakeTimerFires(p) ==
  /\ UNCHANGED <<schedVars, eventVars, replyVars, indexVars>>
  /\ wakeTimer
  /\ atAwait(p)
  /\ wakeTimer' = FALSE
  /\ scheduleNext
  /\ UNCHANGED <<stopped, storeOpen, closedDbThrows, wokeAfterStop, execVars, bootVars, dndVars, searchVars, nextRunVars, extVars>>

\* the function startScheduler returns
StopScheduler(p) ==
  /\ UNCHANGED <<schedVars, eventVars, replyVars, indexVars>>
  /\ atAwait(p)
  /\ ~stopped
  /\ stopped' = TRUE
  /\ timer' = FALSE
  /\ wakeTimer' = FALSE
  /\ storeOpen' = FALSE
  /\ UNCHANGED <<closedDbThrows, wokeAfterStop, execVars, bootVars, dndVars, searchVars, nextRunVars, extVars>>

(***************************************************************************)
(* Event store                                                             *)
(***************************************************************************)
DEFAULT_STALE_MS == 30 * 60000   \* staleAfterMs when the caller gives none
TimeStepMs == 15 * 60000         \* granularity of the event clock
DefaultEventLimit == 20          \* claimEvents: options?.limit ?? 20

Chats == {1, 2}                              \* (chatId, threadId) keys of events
EventLimits == {1, DefaultEventLimit}        \* limit arguments of claimEvents
StaleChoices == {DEFAULT_STALE_MS, TimeStepMs}  \* staleAfterMs arguments
NoToken == 0                                 \* a token no claim call returned

\* lastCall: op, the time and token of the call, ret (rows returned or
\* changed), and for a claim the returned ids, those among them that held
\* an earlier claim, and the limit and staleAfterMs arguments; left is the
\* number of groups processEvents had not dispatched when it made the call
NoCall == [op |-> "none", at |-> 0, token |-> NULL, ret |-> 0, ids |-> {}, stale |-> {},
           limit |-> 0, staleAfter |-> 0, left |-> 0]

\* the state of an event row at time t (spec 3, Event)
EventState(e, t) ==
  IF e.processedAt # NULL THEN "processed"
  ELSE IF e.claimedAt # NULL /\ e.claimedAt > t - DEFAULT_STALE_MS THEN "claimed"
  ELSE "pending"

\* mutation of claimable: a claim exactly staleAfter old is not yet stale
claimableStrict(e, staleBefore) ==
  /\ e.processedAt = NULL
  /\ (e.claimedAt = NULL \/ e.claimedAt < staleBefore)

\* the WHERE clause of the claim statement's inner SELECT
claimable(e, staleBefore) ==
  /\ e.processedAt = NULL
  /\ (e.claimedAt = NULL \/ e.claimedAt <= staleBefore)

\* the inner SELECT of the claim statement: the id sets ORDER BY created_at
\* ASC LIMIT ? can yield (the order of ties is open)
claimSelection(tbl, staleBefore, limit) ==
  LET E == {i \in DOMAIN tbl : claimable(tbl[i], staleBefore)}
      n == Min(limit, Cardinality(E))
  IN {S \in SUBSET E :
        /\ Cardinality(S) = n
        /\ \A a \in S, b \in E \ S : tbl[a].createdAt <= tbl[b].createdAt}

\* claimEvents' transaction: the possible tables after the claim statement
claimEvents(tbl, t, token, limit, staleAfterMs) ==
  {[i \in DOMAIN tbl |->
      IF i \in S THEN [tbl[i] EXCEPT !.claimedAt = t, !.claimToken = token] ELSE tbl[i]]
   : S \in claimSelection(tbl, t - staleAfterMs, limit)}

\* selectClaimed: the rows claimEvents returns
selectClaimed(tbl, token) == {i \in DOMAIN tbl : tbl[i].claimToken = token}

\* mutation of ackEvents: the UPDATE is not scoped by the claim token
ackEventsUnscoped(tbl, token, timestamp) ==
  [i \in DOMAIN tbl |->
     IF tbl[i].claimToken # NULL THEN [tbl[i] EXCEPT !.processedAt = timestamp] ELSE tbl[i]]

\* ackEvents(claimToken, processedAt): the table after the ack statement
ackEvents(tbl, token, timestamp) ==
  [i \in DOMAIN tbl |->
     IF tbl[i].claimToken = token THEN [tbl[i] EXCEPT !.processedAt = timestamp] ELSE tbl[i]]

\* releaseClaim(claimToken): the table after the release statement
releaseClaim(tbl, token) ==
  [i \in DOMAIN tbl |->
     IF tbl[i].claimToken = token
       THEN [tbl[i] EXCEPT !.claimedAt = NULL, !.claimToken = NULL]
       ELSE tbl[i]]

\* result.changes of the ack and release statements
changes(tbl, token) == Cardinality(selectClaimed(tbl, token))

\* addEvent(input)
AddEvent ==
  /\ UNCHANGED <<schedVars, replyVars, indexVars, auxVars>>
  /\ nextEventId <= MaxEvents
  /\ \E chat \in Chats :
       events' = [i \in DOMAIN events \cup {nextEventId} |->
                    IF i = nextEventId
                      THEN [chatId |-> chat, createdAt |-> clock, claimedAt |-> NULL,
                            claimToken |-> NULL, processedAt |-> NULL]
                      ELSE events[i]]
  /\ nextEventId' = nextEventId + 1
  /\ lastCall' = NoCall
  /\ UNCHANGED <<clock, nextToken, pePc, peToken, peGroups>>

\* time passes
ClockTick ==
  /\ UNCHANGED <<schedVars, replyVars, indexVars, auxVars>>
  /\ clock < MaxClockSteps * TimeStepMs
  /\ clock' = clock + TimeStepMs
  /\ lastCall' = NoCall
  /\ UNCHANGED <<events, nextEventId, nextToken, pePc, peToken, peGroups>>

\* a caller other than processEvents calls claimEvents({limit, now, staleAfterMs})
CallClaimEvents ==
  /\ UNCHANGED <<schedVars, replyVars, indexVars, auxVars>>
  /\ nextToken <= MaxTokens
  /\ \E limit \in EventLimits, staleAfterMs \in StaleChoices :
       \E tbl \in claimEvents(events, clock, nextToken, limit, staleAfterMs) :
         /\ events' = tbl
         /\ lastCall' = [op |-> "claim", at |-> clock, token |-> nextToken,
                         ret |-> Cardinality(selectClaimed(tbl, nextToken)),
                         ids |-> selectClaimed(tbl, nextToken),
                         stale |-> {i \in selectClaimed(tbl, nextToken) : events[i].claimedAt # NULL},
                         limit |-> limit, staleAfter |-> staleAfterMs, left |-> 0]
  /\ nextToken' = nextToken + 1
  /\ UNCHANGED <<clock, nextEventId, pePc, peToken, peGroups>>

\* the tokens a caller other than processEvents can present: those handed
\* to such callers, and one that no claim returned
CallerTokens == (NoToken..(nextToken - 1)) \ {peToken}

\* a caller other than processEvents calls ackEvents(claimToken)
CallAckEvents ==
  /\ UNCHANGED <<schedVars, replyVars, indexVars, auxVars>>
  /\ \E token \in CallerTokens :
       /\ events' = ackEvents(events, token, clock)
       /\ lastCall' = [op |-> "ack", at |-> clock, token |-> token,
                       ret |-> changes(events, token), ids |-> {},
                       stale |-> {}, limit |-> 0, staleAfter |-> 0, left |-> 0]
  /\ UNCHANGED <<clock, nextEventId, nextToken, pePc, peToken, peGroups>>

\* a caller other than processEvents calls releaseClaim(claimToken)
CallReleaseClaim ==
  /\ UNCHANGED <<schedVars, replyVars, indexVars, auxVars>>
  /\ \E token \in CallerTokens :
       /\ events' = releaseClaim(events, token)
       /\ lastCall' = [op |-> "release", at |-> clock, token |-> token,
                       ret |-> changes(events, token), ids |-> {},
                       stale |-> {}, limit |-> 0, staleAfter |-> 0, left |-> 0]
  /\ UNCHANGED <<clock, nextEventId, nextToken, pePc, peToken, peGroups>>

(***************************************************************************)
(* Heartbeat dispatcher                                                    *)
(***************************************************************************)
\* groupEvents: the (chatId, threadId) keys of the claimed events in the
\* order of their first event, the events being listed by created_at
groupEvents(tbl, ids) ==
  LET keys == {tbl[i].chatId : i \in ids}
      first(k) == CHOOSE t \in {tbl[i].createdAt : i \in ids} :
                    /\ \E i \in ids : tbl[i].chatId = k /\ tbl[i].createdAt = t
                    /\ \A i \in ids : tbl[i].chatId = k => tbl[i].createdAt >= t
  IN {s \in [1..Cardinality(keys) -> keys] :
        /\ \A a, b \in 1..Cardinality(keys) : a # b => s[a] # s[b]
        /\ \A a, b \in 1..Cardinality(keys) : a < b => first(s[a]) <= first(s[b])}

\* mutation of onDispatchError: the catch block acks instead of releasing
onDispatchErrorAcks(tbl, token, t) == ackEvents(tbl, token, t)

\* processEvents' catch block: the table after it
onDispatchError(tbl, token, t) == releaseClaim(tbl, token)

\* processEvents: claimEvents() with the defaults, return when nothing was
\* claimed, else group the events
PEStart ==
  /\ UNCHANGED <<schedVars, replyVars, indexVars, auxVars>>
  /\ pePc = "idle"
  /\ nextToken <= MaxTokens
  /\ \E tbl \in claimEvents(events, clock, nextToken, DefaultEventLimit, DEFAULT_STALE_MS) :
       LET ids == selectClaimed(tbl, nextToken)
       IN /\ events' = tbl
          /\ lastCall' = [op |-> "claim", at |-> clock, token |-> nextToken,
                          ret |-> Cardinality(ids), ids |-> ids,
                          stale |-> {i \in ids : events[i].claimedAt # NULL},
                          limit |-> DefaultEventLimit, staleAfter |-> DEFAULT_STALE_MS,
                          left |-> 0]
          /\ IF ids = {}
               THEN UNCHANGED <<pePc, peToken, peGroups>>
               ELSE /\ pePc' = "dispatch"
                    /\ peToken' = nextToken
                    /\ peGroups' \in groupEvents(tbl, ids)
  /\ nextToken' = nextToken + 1
  /\ UNCHANGED <<clock, nextEventId>>

\* processEvents: streamAgentReply for the next group resolved
PEDispatchOk ==
  /\ UNCHANGED <<schedVars, replyVars, indexVars, auxVars>>
  /\ pePc = "dispatch"
  /\ peGroups # <<>>
  /\ peGroups' = Tail(peGroups)
  /\ lastCall' = NoCall
  /\ UNCHANGED <<clock, events, nextEventId, nextToken, pePc, peToken>>

\* processEvents: every group was dispatched, the claim is acked
PEAck ==
  /\ UNCHANGED <<schedVars, replyVars, indexVars, auxVars>>
  /\ pePc = "dispatch"
  /\ peGroups = <<>>
  /\ events' = ackEvents(events, peToken, clock)
  /\ lastCall' = [op |-> "ack", at |-> clock, token |-> peToken,
                  ret |-> changes(events, peToken), ids |-> {},
                  stale |-> {}, limit |-> 0, staleAfter |-> 0, left |-> Len(peGroups)]
  /\ pePc' = "idle"
  /\ peToken' = NULL
  /\ UNCHANGED <<clock, nextEventId, nextToken, peGroups>>

\* processEvents: the dispatch of the next group threw
PEDispatchThrow ==
  /\ UNCHANGED <<schedVars, replyVars, indexVars, auxVars>>
  /\ pePc = "dispatch"
  /\ peGroups # <<>>
  /\ events' = onDispatchError(events, peToken, clock)
  /\ lastCall' = [op |-> "release", at |-> clock, token |-> peToken,
                  ret |-> changes(events, peToken), ids |-> {},
                  stale |-> {}, limit |-> 0, staleAfter |-> 0, left |-> Len(peGroups)]
  /\ pePc' = "idle"
  /\ peToken' = NULL
  /\ peGroups' = <<>>
  /\ UNCHANGED <<clock, nextEventId, nextToken>>

\* the process running processEvents dies before ack or release
PECrash ==
  /\ UNCHANGED <<schedVars, replyVars, indexVars, auxVars>>
  /\ pePc = "dispatch"
  /\ pePc' = "idle"
  /\ peToken' = NULL
  /\ peGroups' = <<>>
  /\ lastCall' = NoCall
  /\ UNCHANGED <<clock, events, nextEventId, nextToken>>

(***************************************************************************)
(* Scheduler loop: the tick with its heartbeat dispatch, the tick timer    *)
(* with its delay, and wake requests.  The events table is only touched by *)
(* this process, and the 15-minute steps of the event clock do not pass.   *)
(***************************************************************************)
MaxSleep == 1        \* maxSleepMs, in steps of the scheduler clock

\* countPending({ now })
countPending(tbl, t) ==
  Cardinality({i \in DOMAIN tbl : claimable(tbl[i], t - DEFAULT_STALE_MS)})

\* getNextRunAt(): MIN(next_run_at) of the enabled rows, NULL when there is none
getNextRunAt(tbl) ==
  LET E == {i \in DOMAIN tbl : ~tbl[i].removed /\ tbl[i].enabled}
  IN IF E = {} THEN NULL
     ELSE tbl[CHOOSE i \in E : \A j \in E : tbl[i].nextRunAt <= tbl[j].nextRunAt].nextRunAt

\* mutation of sleepDelay: pending events are not looked at
sleepDelayIgnoringEvents(hasPendingEvents, nextRunAt, t) ==
  Min(IF nextRunAt # NULL THEN Max(0, nextRunAt - t) ELSE MaxSleep, MaxSleep)

\* scheduleNext: actualDelay
sleepDelay(hasPendingEvents, nextRunAt, t) ==
  Min(IF hasPendingEvents THEN 0
      ELSE IF nextRunAt # NULL THEN Max(0, nextRunAt - t) ELSE MaxSleep,
      MaxSleep)

\* scheduleNext() over the tables as they are after the step: returns when
\* stopped, otherwise clears the timer and arms it for now + actualDelay
scheduleNextTick(jobTbl, eventTbl) ==
  IF stopped
    THEN UNCHANGED <<timer, timerAt>>
    ELSE /\ timer' = TRUE
         /\ timerAt' = now + sleepDelay(hbEnabled /\ countPending(eventTbl, clock) > 0,
                                        getNextRunAt(jobTbl), now)

\* the points where the event loop can run another callback of the process
atLoopAwait(p) == pc[p] \in {"idle", "dispatch", "exec"}

\* tick's finally block: `running = false; scheduleNext()`
tickFinally(p, jobTbl, eventTbl) ==
  /\ endBody(p)
  /\ scheduleNextTick(jobTbl, eventTbl)
  /\ due' = [due EXCEPT ![p] = <<>>]
  /\ tickNow' = [tickNow EXCEPT ![p] = 0]

\* the tick timer is due and fires: `void tick()`; tick returns at once when a
\* tick is running, else it sets running and goes on to processEvents when
\* the heartbeat is enabled, to the claim loop when not
LoopTimerFires(p) ==
  /\ UNCHANGED <<eventVars, replyVars, indexVars>>
  /\ timer
  /\ timerAt <= now
  /\ atLoopAwait(p)
  /\ timer' = FALSE
  /\ IF running[p] \/ stopped
       THEN UNCHANGED <<running, bodies, pc>>
       ELSE /\ running' = [running EXCEPT ![p] = TRUE]
            /\ bodies' = [bodies EXCEPT ![p] = Min(2, @ + 1)]
            /\ pc' = [pc EXCEPT ![p] = IF hbEnabled THEN "events" ELSE "claim"]
  /\ UNCHANGED <<now, jobs, nextJobId, adhocUntil, due, tickNow, ran, succeeded, rejected>>
  /\ UNCHANGED <<stopped, wakeTimer, storeOpen, closedDbThrows, wokeAfterStop>>
  /\ UNCHANGED <<execVars, bootVars, dndVars, searchVars, nextRunVars, parseVars, tailVars>>
  /\ arrived' = (arrived /\ (running[p] \/ stopped))
  /\ UNCHANGED <<timerAt, hbEnabled>>

\* processEvents: claimEvents() with the defaults; it returns when nothing was
\* claimed, else it groups the events.  The token of a claim that took no row
\* is on no row, and neither is one of a released claim.
LoopClaimEvents(p) ==
  /\ UNCHANGED <<replyVars, indexVars, auxVars>>
  /\ pc[p] = "events"
  /\ \E tbl \in claimEvents(events, clock, nextToken, DefaultEventLimit, DEFAULT_STALE_MS) :
       LET ids == selectClaimed(tbl, nextToken)
       IN /\ events' = tbl
          /\ IF ids = {}
               THEN /\ pc' = [pc EXCEPT ![p] = "claim"]
                    /\ UNCHANGED <<peToken, peGroups>>
               ELSE /\ pc' = [pc EXCEPT ![p] = "dispatch"]
                    /\ peToken' = nextToken
                    /\ peGroups' \in groupEvents(tbl, ids)
  /\ UNCHANGED <<clock, nextEventId, nextToken, pePc, lastCall>>
  /\ UNCHANGED <<now, jobs, nextJobId, adhocUntil, due, tickNow, ran, succeeded, tickFlags>>

\* processEvents: streamAgentReply for the next group resolved
LoopDispatchOk(p) ==
  /\ UNCHANGED <<schedVars, replyVars, indexVars, auxVars>>
  /\ pc[p] = "dispatch"
  /\ peGroups # <<>>
  /\ peGroups' = Tail(peGroups)
  /\ UNCHANGED <<clock, events, nextEventId, nextToken, pePc, peToken, lastCall>>

\* processEvents: every group was dispatched; the claim is acked and the tick
\* goes on to its claim loop
LoopAck(p) ==
  /\ UNCHANGED <<replyVars, indexVars, auxVars>>
  /\ pc[p] = "dispatch"
  /\ peGroups = <<>>
  /\ events' = ackEvents(events, peToken, clock)
  /\ nextToken' = nextToken + 1
  /\ peToken' = NULL
  /\ pc' = [pc EXCEPT ![p] = "claim"]
  /\ UNCHANGED <<clock, nextEventId, pePc, peGroups, lastCall>>
  /\ UNCHANGED <<now, jobs, nextJobId, adhocUntil, due, tickNow, ran, succeeded, tickFlags>>

\* processEvents: the dispatch of a group threw; the catch block releases
\* the claim and rethrows, which takes the tick to its finally block
LoopDispatchThrow(p) ==
  /\ UNCHANGED <<replyVars, indexVars>>
  /\ pc[p] = "dispatch"
  /\ peGroups # <<>>
  /\ events' = onDispatchError(events, peToken, clock)
  /\ peToken' = NULL
  /\ peGroups' = <<>>
  /\ pc' = [pc EXCEPT ![p] = "idle"]
  /\ tickFinally(p, jobs, events')
  /\ UNCHANGED <<clock, nextEventId, nextToken, pePc, lastCall>>
  /\ UNCHANGED <<now, jobs, nextJobId, adhocUntil, ran, succeeded>>
  /\ UNCHANGED <<stopped, wakeTimer, storeOpen, closedDbThrows, wokeAfterStop>>
  /\ UNCHANGED <<execVars, bootVars, dndVars, searchVars, nextRunVars, parseVars, tailVars>>
  /\ UNCHANGED <<hbEnabled, arrived>>

\* the loop of tick: claimDueJobs, and the finally block when nothing is due
LoopClaimDue(p) ==
  /\ UNCHANGED <<eventVars, replyVars, indexVars>>
  /\ pc[p] = "claim"
  /\ \E r \in claimDueJobs(jobs, now, ClaimLimit) :
       /\ jobs' = r.tbl
       /\ IF r.rows = <<>>
            THEN /\ pc' = [pc EXCEPT ![p] = "idle"]
                 /\ tickFinally(p, r.tbl, events)
            ELSE /\ pc' = [pc EXCEPT ![p] = "job"]
                 /\ due' = [due EXCEPT ![p] = r.rows]
                 /\ tickNow' = [tickNow EXCEPT ![p] = now]
                 /\ UNCHANGED <<tickFlags, timer, timerAt>>
  /\ UNCHANGED <<now, nextJobId, adhocUntil, ran, succeeded>>
  /\ UNCHANGED <<stopped, wakeTimer, storeOpen, closedDbThrows, wokeAfterStop>>
  /\ UNCHANGED <<execVars, bootVars, dndVars, searchVars, nextRunVars, parseVars, tailVars>>
  /\ UNCHANGED <<hbEnabled, arrived>>

\* requestWake, called by the SIGUSR1 handler or the file watcher
LoopRequestWake(p) ==
  /\ UNCHANGED <<schedVars, eventVars, replyVars, indexVars>>
  /\ atLoopAwait(p)
  /\ ~wakeTimer
  /\ wakeTimer' = requestWakeMayArm(stopped, wakeTimer)
  /\ arrived' = (arrived \/ running[p])
  /\ UNCHANGED <<stopped, timer, storeOpen, closedDbThrows, wokeAfterStop>>
  /\ UNCHANGED <<execVars, bootVars, dndVars, searchVars, nextRunVars, parseVars, tailVars>>
  /\ UNCHANGED <<timerAt, hbEnabled>>

\* another process calls addJob
LoopAddJob(p) ==
  /\ UNCHANGED <<eventVars, replyVars, indexVars, baseAuxVars, parseVars, tailVars>>
  /\ addJob(TRUE)
  /\ arrived' = (arrived \/ running[p])
  /\ UNCHANGED <<timerAt, hbEnabled>>

\* another process calls addEvent
LoopAddEvent(p) ==
  /\ UNCHANGED <<schedVars, replyVars, indexVars, baseAuxVars, parseVars, tailVars>>
  /\ nextEventId <= MaxEvents
  /\ \E chat \in Chats :
       events' = [i \in DOMAIN events \cup {nextEventId} |->
                    IF i = nextEventId
                      THEN [chatId |-> chat, createdAt |-> clock, claimedAt |-> NULL,
                            claimToken |-> NULL, processedAt |-> NULL]
                      ELSE events[i]]
  /\ nextEventId' = nextEventId + 1
  /\ arrived' = (arrived \/ running[p])
  /\ UNCHANGED <<clock, nextToken, pePc, peToken, peGroups, lastCall>>
  /\ UNCHANGED <<timerAt, hbEnabled>>

\* the wake-debounce timer fires: `wakeTimer = null; scheduleNext()`
LoopWakeTimerFires(p) ==
  /\ UNCHANGED <<schedVars, eventVars, replyVars, indexVars>>
  /\ wakeTimer
  /\ atLoopAwait(p)
  /\ wakeTimer' = FALSE
  /\ scheduleNextTick(jobs, events)
  /\ UNCHANGED <<stopped, storeOpen, closedDbThrows, wokeAfterStop>>
  /\ UNCHANGED <<execVars, bootVars, dndVars, searchVars, nextRunVars, parseVars, tailVars>>
  /\ UNCHANGED <<hbEnabled, arrived>>

(***************************************************************************)
(* Session store                                                           *)
(*                                                                         *)
(* The session document is kept per chat as the number of the setter call  *)
(* that stored the chat's entry, 0 for a chat without entry.  The files of *)
(* the directory are inodes: writeFileSync opens and truncates, writes and *)
(* closes; renameSync makes the name of the document point to the inode of *)
(* the temp file.  Both instances use the same temp path.                  *)
(***************************************************************************)
Stores == {"daemon", "cli"}    \* the processes holding a SessionStore
SessChats == {1, 2}
Inodes == 1..4

EmptyDoc == [c \in SessChats |-> 0]

\* the length of JSON.stringify(state, null, 2): it grows with the number of chats
jsonLength(d) == 1 + Cardinality({c \in SessChats : d[c] # 0})

EmptyFile == [kind |-> "empty", doc |-> EmptyDoc, len |-> 0]

DocFile(d) == [kind |-> "doc", doc |-> d, len |-> jsonLength(d)]

\* the beginning of one document followed by the end of another
MixedFile(len) == [kind |-> "mixed", doc |-> EmptyDoc, len |-> len]

\* write(fd, JSON.stringify(state)) at position 0 of a file holding `old`
writeAt0(old, d) ==
  IF old.len <= jsonLength(d) THEN DocFile(d) ELSE MixedFile(old.len)

\* load(): the state a SessionStore starts from; a missing or malformed
\* file gives the empty state
load(ino, files) ==
  IF ino = NULL THEN EmptyDoc
  ELSE IF files[ino].kind = "doc" THEN files[ino].doc
  ELSE EmptyDoc

\* an inode no name and no descriptor refers to
freeInode ==
  CHOOSE i \in Inodes : i \notin ({sessIno, tmpIno} \cup {ssFd[q] : q \in Stores})

\* new SessionStore(sessionsPath)
Construct(p) ==
  /\ UNCHANGED <<baseVars, parseVars, loopVars, tgVars, chunkVars>>
  /\ ssPc[p] = "closed"
  /\ ssState' = [ssState EXCEPT ![p] = load(sessIno, inodes)]
  /\ ssPc' = [ssPc EXCEPT ![p] = "ready"]
  /\ UNCHANGED <<ssFd, ssChat, ssWrites, ssSaved, inodes, sessIno, tmpIno>>

\* the process holding the instance ends
ProcessExit(p) ==
  /\ UNCHANGED <<baseVars, parseVars, loopVars, tgVars, chunkVars>>
  /\ ssPc[p] = "ready"
  /\ ssPc' = [ssPc EXCEPT ![p] = "closed"]
  /\ ssState' = [ssState EXCEPT ![p] = EmptyDoc]
  /\ UNCHANGED <<ssFd, ssChat, ssWrites, ssSaved, inodes, sessIno, tmpIno>>

\* setResume / setContext / setDefaultEngine(chatId, ..): the entry of the
\* chat is set in this.state, and save() opens the temp file
SetResume(p) ==
  /\ UNCHANGED <<baseVars, parseVars, loopVars, tgVars, chunkVars>>
  /\ ssPc[p] = "ready"
  /\ ssWrites < MaxSaves
  /\ \E chatId \in SessChats :
       /\ ssState' = [ssState EXCEPT ![p][chatId] = ssWrites + 1]
       /\ ssChat' = [ssChat EXCEPT ![p] = chatId]
  /\ ssWrites' = ssWrites + 1
  /\ LET ino == IF tmpIno = NULL THEN freeInode ELSE tmpIno
     IN /\ tmpIno' = ino
        /\ inodes' = [inodes EXCEPT ![ino] = EmptyFile]
        /\ ssFd' = [ssFd EXCEPT ![p] = ino]
  /\ ssPc' = [ssPc EXCEPT ![p] = "opened"]
  /\ UNCHANGED <<sessIno, ssSaved>>

\* atomicWriteJson: writeFileSync writes the document and closes the file
SaveWrite(p) ==
  /\ UNCHANGED <<baseVars, parseVars, loopVars, tgVars, chunkVars>>
  /\ ssPc[p] = "opened"
  /\ inodes' = [inodes EXCEPT ![ssFd[p]] = writeAt0(@, ssState[p])]
  /\ ssFd' = [ssFd EXCEPT ![p] = NULL]
  /\ ssPc' = [ssPc EXCEPT ![p] = "written"]
  /\ UNCHANGED <<ssState, ssChat, ssWrites, ssSaved, sessIno, tmpIno>>

\* atomicWriteJson: renameSync(tempPath, filePath); it throws when the temp
\* file is gone, and the setter throws with it
SaveRename(p) ==
  /\ UNCHANGED <<baseVars, parseVars, loopVars, tgVars, chunkVars>>
  /\ ssPc[p] = "written"
  /\ IF tmpIno = NULL
       THEN UNCHANGED <<sessIno, tmpIno, ssSaved>>
       ELSE /\ sessIno' = tmpIno
            /\ tmpIno' = NULL
            /\ ssSaved' = [ssSaved EXCEPT ![ssChat[p]] = ssState[p][ssChat[p]]]
  /\ ssPc' = [ssPc EXCEPT ![p] = "ready"]
  /\ ssChat' = [ssChat EXCEPT ![p] = NULL]
  /\ UNCHANGED <<ssState, ssFd, ssWrites, inodes>>

(***************************************************************************)
(* Transport loop                                                          *)
(*                                                                         *)
(* The update_id of an update is its index in the list of the updates the  *)
(* bot has received.                                                       *)
(***************************************************************************)
UpdateKinds == {"message", "callback_query"}

\* an update: its kind, whether parseTelegramUpdate / parseCallbackQuery
\* makes something of it, and whether the allowlist lets its sender through
Updates == [kind : UpdateKinds, parseable : BOOLEAN, allowed : BOOLEAN]

\* loadOffset(statePath): the offset member of the JSON text, undefined
\* without a file
loadOffset(file) == IF file = <<>> THEN NULL ELSE file[2]

\* persistOffset(statePath, offset): the file holds JSON.stringify({ offset })
persistOffset(offset) == <<"offset", offset>>

\* client.getUpdates({ offset }): the ids of the updates the server returns,
\* those it has not been told to forget
getUpdates(offset, confirmed, received) ==
  LET first == Max(1, Max(offset, confirmed))
  IN [k \in 1..(Len(received) + 1 - first) |-> first + k - 1]

\* the rest of the batch is looked at, then the next getUpdates call
continueLoop ==
  /\ tgBatch' = Tail(tgBatch)
  /\ tgPc' = IF Tail(tgBatch) = <<>> THEN "poll" ELSE "loop"

\* `offset = update.update_id + 1; persistOffset(config.statePath, offset); continue`
acknowledge(id) ==
  /\ tgOffset' = id + 1
  /\ tgStateFile' = persistOffset(id + 1)
  /\ tgDealt' = tgDealt \cup {id}
  /\ continueLoop

\* startTelegramTransport(config, handlers) up to its loop
TgStart ==
  /\ UNCHANGED <<baseVars, parseVars, loopVars, sessVars, chunkVars>>
  /\ tgPc = "stopped"
  /\ tgOffset' = loadOffset(tgStateFile)
  /\ tgPc' = "poll"
  /\ UNCHANGED <<tgUpdates, tgConfirmed, tgOnCallback, tgStateFile, tgBatch, tgDealt>>

\* somebody sends the bot a message or presses a button
TgReceive ==
  /\ UNCHANGED <<baseVars, parseVars, loopVars, sessVars, chunkVars>>
  /\ Len(tgUpdates) < MaxUpdates
  /\ \E u \in Updates : tgUpdates' = Append(tgUpdates, u)
  /\ UNCHANGED <<tgConfirmed, tgOnCallback, tgOffset, tgStateFile, tgBatch, tgPc, tgDealt>>

\* the long poll returns with updates
TgGetUpdates ==
  /\ UNCHANGED <<baseVars, parseVars, loopVars, sessVars, chunkVars>>
  /\ tgPc = "poll"
  /\ tgConfirmed' = Max(tgConfirmed, tgOffset)
  /\ tgBatch' = getUpdates(tgOffset, tgConfirmed, tgUpdates)
  /\ tgBatch' # <<>>
  /\ tgPc' = "loop"
  /\ UNCHANGED <<tgUpdates, tgOnCallback, tgOffset, tgStateFile, tgDealt>>

\* the body of `for (const update of updates)` up to its await or its continue
TgUpdate ==
  /\ UNCHANGED <<baseVars, parseVars, loopVars, sessVars, chunkVars>>
  /\ tgPc = "loop"
  /\ LET id == Head(tgBatch)
         update == tgUpdates[id]
     IN IF update.kind = "callback_query" /\ tgOnCallback
          THEN IF update.parseable
                 THEN IF ~update.allowed
                        THEN /\ continueLoop
                             /\ tgDealt' = tgDealt \cup {id}
                             /\ UNCHANGED <<tgOffset, tgStateFile>>
                        ELSE /\ tgPc' = "handler"
                             /\ UNCHANGED <<tgOffset, tgStateFile, tgBatch, tgDealt>>
                 ELSE acknowledge(id)
          ELSE IF ~(update.kind = "message" /\ update.parseable)
                 THEN acknowledge(id)
                 ELSE IF ~update.allowed
                        THEN acknowledge(id)
                        ELSE /\ tgPc' = "handler"
                             /\ UNCHANGED <<tgOffset, tgStateFile, tgBatch, tgDealt>>
  /\ UNCHANGED <<tgUpdates, tgConfirmed, tgOnCallback>>

\* handlers.onMessage / handlers.onCallback returns
TgHandlerReturns ==
  /\ UNCHANGED <<baseVars, parseVars, loopVars, sessVars, chunkVars>>
  /\ tgPc = "handler"
  /\ acknowledge(Head(tgBatch))
  /\ UNCHANGED <<tgUpdates, tgConfirmed, tgOnCallback>>

\* the handler throws: the catch block reports it and the loop polls again
TgHandlerThrows ==
  /\ UNCHANGED <<baseVars, parseVars, loopVars, sessVars, chunkVars>>
  /\ tgPc = "handler"
  /\ tgBatch' = <<>>
  /\ tgPc' = "poll"
  /\ UNCHANGED <<tgUpdates, tgConfirmed, tgOnCallback, tgOffset, tgStateFile, tgDealt>>

\* the daemon ends and is started again later
TgRestart ==
  /\ UNCHANGED <<baseVars, parseVars, loopVars, sessVars, chunkVars>>
  /\ tgPc # "stopped"
  /\ tgPc' = "stopped"
  /\ tgBatch' = <<>>
  /\ tgOffset' = NULL
  /\ UNCHANGED <<tgUpdates, tgConfirmed, tgOnCallback, tgStateFile, tgDealt>>

(***************************************************************************)
(* Message chunking                                                        *)
(*                                                                         *)
(* A text is a sequence of characters, of which only the line feed is told *)
(* from the others; an entity is kept as its offset and its length.        *)
(***************************************************************************)
Newline == "LF"

Chars == {"a", Newline}

\* text.lastIndexOf("\n", fromIndex): the greatest index up to fromIndex
\* that holds a line feed (indices from 0), -1 when there is none
lastIndexOf(text, fromIndex) ==
  LET found == {i \in 0..Min(fromIndex, Len(text) - 1) : text[i + 1] = Newline}
  IN IF found = {} THEN -1 ELSE CHOOSE i \in found : \A j \in found : j <= i

\* text.slice(start, end)
slice(text, start, end) == SubSeq(text, start + 1, end)

findChunkEnd(text, start, maxChars) ==
  LET maxEnd == Min(Len(text), start + maxChars)
      newline == lastIndexOf(text, maxEnd)
  IN IF maxEnd = Len(text) THEN maxEnd
     ELSE IF newline > start + ((maxChars * 4) \div 10) THEN newline + 1
     ELSE maxEnd

sliceEntities(entities, start, end) ==
  LET nextStart(e) == Max(e.offset, start)
      nextEnd(e) == Min(e.offset + e.length, end)
      kept(e) == /\ ~(e.offset + e.length <= start \/ e.offset >= end)
                 /\ nextEnd(e) - nextStart(e) > 0
      sliced == SelectSeq(entities, kept)
  IN [k \in 1..Len(sliced) |->
        [offset |-> nextStart(sliced[k]) - start,
         length |-> nextEnd(sliced[k]) - nextStart(sliced[k])]]

\* chunkTelegramMessage, text no longer than maxChars: `return [rendered]`
ChunkWhole ==
  /\ UNCHANGED <<baseVars, parseVars, loopVars, sessVars, tgVars>>
  /\ ckPc = "ready"
  /\ Len(ckText) <= ckMax
  /\ ckChunks' = <<[text |-> ckText, entities |-> ckEntities]>>
  /\ ckPc' = "done"
  /\ UNCHANGED <<ckText, ckEntities, ckMax, ckStart>>

\* chunkTelegramMessage, longer text: `const chunks = []; let start = 0`
ChunkEnter ==
  /\ UNCHANGED <<baseVars, parseVars, loopVars, sessVars, tgVars>>
  /\ ckPc = "ready"
  /\ Len(ckText) > ckMax
  /\ ckChunks' = <<>>
  /\ ckStart' = 0
  /\ ckPc' = "loop"
  /\ UNCHANGED <<ckText, ckEntities, ckMax>>

\* one pass through the body of `while (start < rendered.text.length)`
ChunkIteration ==
  /\ UNCHANGED <<baseVars, parseVars, loopVars, sessVars, tgVars>>
  /\ ckPc = "loop"
  /\ ckStart < Len(ckText)
  /\ LET end == findChunkEnd(ckText, ckStart, ckMax)
     IN /\ ckChunks' = Append(ckChunks, [text |-> slice(ckText, ckStart, end),
                                         entities |-> sliceEntities(ckEntities, ckStart, end)])
        /\ ckStart' = end
  /\ UNCHANGED <<ckText, ckEntities, ckMax, ckPc>>

\* the loop ends: `return chunks`
ChunkReturn ==
  /\ UNCHANGED <<baseVars, parseVars, loopVars, sessVars, tgVars>>
  /\ ckPc = "loop"
  /\ ~(ckStart < Len(ckText))
  /\ ckPc' = "done"
  /\ UNCHANGED <<ckText, ckEntities, ckMax, ckStart, ckChunks>>

\* the texts, the entities and the sizes chunkTelegramMessage is called with
Texts == UNION {[1..n -> Chars] : n \in 1..MaxTextLen}

EntityLists(text) ==
  {<<>>} \cup {<<[offset |-> o, length |-> l]>> :
                 o \in 0..(Len(text) - 1), l \in 1..Len(text)}

(***************************************************************************)
(* Streaming reply engine                                                  *)
(*                                                                         *)
(* A text is a prefix of the one stream of visible characters the engine   *)
(* produces, every position of which holds different content; it is        *)
(* represented by its length.  What a transport call carries is the range  *)
(* [lo, hi) of that stream.  The text holds no markdown and no newline, so *)
(* rendering leaves it as it is and chunks are cut at the size limit.      *)
(***************************************************************************)
FLUSH_INTERVAL_MS == 900

STREAM_PREVIEW_LIMIT == 3000

TYPING_DELAY_MS == 600

TELEGRAM_SAFE_CHARS == 3500

\* the number of visible characters one delta adds to the buffer
DeltaChars == 1500

MaxChars == MaxDeltas * DeltaChars

\* Date.now() when streamAgentReply is called: any value past one interval
ReplyStart == 2 * FLUSH_INTERVAL_MS

StreamModes == {"edit", "send", "off"}

Range(lo, hi) == [lo |-> lo, hi |-> hi]

\* the text of a [[react:...]] directive, sent as a message when the reaction fails
ReactText == Range(NULL, NULL)

NoText == Range(0, 0)

IdleFlush == [pc |-> "idle", final |-> FALSE, cleaned |-> 0, react |-> FALSE,
              texts |-> <<>>, rest |-> <<>>]

\* the locals and the state object of streamAgentReply when it is called
StreamState(dir, canReact) ==
  [ pc |-> "running", deltas |-> 0, cancelled |-> FALSE,
    dir |-> dir, canReact |-> canReact,
    buffer |-> [n |-> 0, sil |-> FALSE],
    mode |-> "edit", sentMessageId |-> NULL, lastSentText |-> 0, lastFlushAt |-> 0,
    scheduled |-> NULL, didSend |-> FALSE, didReact |-> FALSE,
    didTriggerSend |-> FALSE, typingTimer |-> TRUE,
    flushInProgress |-> FALSE, pendingFlush |-> FALSE,
    fl |-> IdleFlush,
    chat |-> <<>>, lastText |-> NoText, lastOk |-> FALSE, dup |-> FALSE,
    logged |-> NULL, responseText |-> NULL ]

\* parseReplyDirectives of the buffer: the directives travel with the text
parseReplyDirectives(r) ==
  LET present == r.buffer.n > 0 \/ r.buffer.sil
  IN [ text |-> IF r.buffer.sil THEN 0 ELSE r.buffer.n,
       streamMode |-> IF present THEN r.dir ELSE "none",
       react |-> present /\ r.canReact,
       isSilent |-> r.buffer.sil ]

RECURSIVE chunkTelegramMessage(_, _)
chunkTelegramMessage(start, end) ==
  IF end - start <= TELEGRAM_SAFE_CHARS
  THEN <<Range(start, end)>>
  ELSE <<Range(start, start + TELEGRAM_SAFE_CHARS)>>
         \o chunkTelegramMessage(start + TELEGRAM_SAFE_CHARS, end)

\* the sendMessage / editMessageText calls reaching the client, in order;
\* dup records a call that carries the text the call before it delivered
RECURSIVE clientCalls(_, _)
clientCalls(r, texts) ==
  IF texts = <<>> THEN r
  ELSE clientCalls([r EXCEPT !.dup = r.dup \/ (r.lastOk /\ r.lastText = Head(texts)),
                             !.lastText = Head(texts),
                             !.lastOk = TRUE], Tail(texts))

triggerSend(r) == [r EXCEPT !.didTriggerSend = TRUE, !.typingTimer = FALSE]

cancelTypingTimer(r) == [r EXCEPT !.typingTimer = FALSE]

scheduleFlush(r, t) ==
  IF r.scheduled # NULL THEN r ELSE [r EXCEPT !.scheduled = t + FLUSH_INTERVAL_MS]

\* streamAgentReply after flush(true): log the text sent last and return it
returnReply(r) ==
  [r EXCEPT !.pc = "done",
            !.logged = IF r.lastSentText > 0 THEN r.lastSentText ELSE NULL,
            !.responseText = r.lastSentText]

\* the finally block of flush
finallyBlock(r, t) ==
  LET c == [r EXCEPT !.flushInProgress = FALSE, !.pendingFlush = FALSE, !.fl = IdleFlush]
  IN IF r.pendingFlush THEN scheduleFlush(c, t) ELSE c

\* flush returns: the finally block, then the caller of flush(true) goes on
finish(r, t) ==
  IF r.fl.final THEN returnReply(finallyBlock(r, t)) ELSE finallyBlock(r, t)

\* flush rejects: the finally block, and streamAgentReply rejects with it
abort(r, t) ==
  IF r.fl.final THEN [finallyBlock(r, t) EXCEPT !.pc = "failed"] ELSE finallyBlock(r, t)

\* a transport call is made and the flush waits for it
await(r, stage, texts) ==
  [clientCalls(r, texts) EXCEPT !.fl.pc = stage, !.fl.texts = texts, !.lastOk = FALSE]

awaitReaction(r, stage) == [r EXCEPT !.fl.pc = stage, !.fl.texts = <<>>]

\* the messages of a sendTelegramMessage call appear in the chat
delivered(r, texts) == [r EXCEPT !.chat = r.chat \o texts, !.lastOk = TRUE]

\* flush, once the primary message is settled: remaining chunks, then the reaction
afterChunks(r, t) ==
  LET r1 == [r EXCEPT !.lastSentText = r.fl.cleaned]
  IN IF r.fl.final /\ r.fl.react THEN awaitReaction(r1, "react") ELSE finish(r1, t)

afterPrimary(r, t) ==
  IF r.fl.final /\ r.fl.rest # <<>>
  THEN await([triggerSend(r) EXCEPT !.fl.rest = Tail(r.fl.rest)], "chunk", <<Head(r.fl.rest)>>)
  ELSE afterChunks(r, t)

\* mutation of mutexEntry: a flush called during another one is not noted
mutexEntryDropping(r, final) == r

\* flush called while another flush is in progress: only a non-final call is noted
mutexEntry(r, final) ==
  IF final THEN r ELSE [r EXCEPT !.pendingFlush = TRUE]

\* flush(final) from its call to its first await or to its return
flush(r, final, t) ==
  IF r.cancelled THEN (IF final THEN returnReply(r) ELSE r)
  ELSE IF r.flushInProgress
  THEN (IF final THEN returnReply(mutexEntry(r, final)) ELSE mutexEntry(r, final))
  ELSE
    LET parsed == parseReplyDirectives(r)
        cleaned == parsed.text
        r1 == [r EXCEPT !.flushInProgress = TRUE,
                        !.pc = IF final THEN "flushing" ELSE @,
                        !.mode = IF parsed.streamMode # "none" THEN parsed.streamMode ELSE @,
                        !.fl = [IdleFlush EXCEPT !.final = final, !.cleaned = cleaned,
                                                 !.react = parsed.react]]
    IN
    IF parsed.isSilent /\ final
    THEN (IF parsed.react THEN awaitReaction(cancelTypingTimer(r1), "reactOnly")
          ELSE finish(cancelTypingTimer(r1), t))
    ELSE IF r1.mode = "off" /\ ~final THEN finish(r1, t)
    ELSE IF final /\ cleaned = 0 /\ parsed.react
    THEN awaitReaction(cancelTypingTimer(r1), "reactOnly")
    ELSE IF cleaned = 0 THEN finish(r1, t)
    ELSE IF ~final /\ t - r1.lastFlushAt < FLUSH_INTERVAL_MS
    THEN finish(scheduleFlush(cancelTypingTimer(r1), t), t)
    ELSE
      LET r2 == [cancelTypingTimer(r1) EXCEPT !.lastFlushAt = t]
      IN
      IF r2.mode = "send"
      THEN (IF cleaned <= r2.lastSentText THEN finish(r2, t)
            ELSE await(triggerSend(r2), "append",
                       chunkTelegramMessage(r2.lastSentText, cleaned)))
      ELSE
        LET preview == IF final THEN cleaned ELSE Min(cleaned, STREAM_PREVIEW_LIMIT)
            msgChunks == chunkTelegramMessage(0, preview)
            primary == Head(msgChunks)
            r3 == [r2 EXCEPT !.fl.rest = IF final THEN Tail(msgChunks) ELSE <<>>]
        IN
        IF r3.sentMessageId # NULL /\ cleaned = r3.lastSentText THEN finish(r3, t)
        ELSE IF r3.sentMessageId = NULL THEN await(triggerSend(r3), "send", <<primary>>)
        ELSE await(r3, "edit", <<primary>>)

\* ---- actions of the reply ----
\* the engine streams one delta: the onDelta callback
OnDelta ==
  /\ UNCHANGED <<schedVars, eventVars, indexVars, auxVars>>
  /\ reply.pc = "running"
  /\ reply.deltas < MaxDeltas
  /\ LET r1 == [reply EXCEPT !.deltas = @ + 1, !.buffer.n = @ + DeltaChars]
     IN reply' = scheduleFlush(triggerSend(r1), rNow)
  /\ UNCHANGED rNow

\* time passes
ReplyTick ==
  /\ UNCHANGED <<schedVars, eventVars, indexVars, auxVars>>
  /\ rNow < ReplyStart + MaxReplySteps * FLUSH_INTERVAL_MS
  /\ rNow' = rNow + FLUSH_INTERVAL_MS
  /\ UNCHANGED reply

\* the typing timer fires
TypingTimerFires ==
  /\ UNCHANGED <<schedVars, eventVars, indexVars, auxVars>>
  /\ reply.typingTimer
  /\ rNow - ReplyStart >= TYPING_DELAY_MS
  /\ reply' = triggerSend(reply)
  /\ UNCHANGED rNow

\* the flush timer fires: scheduled = null; void flush(false)
TimerFires ==
  /\ UNCHANGED <<schedVars, eventVars, indexVars, auxVars>>
  /\ reply.scheduled # NULL
  /\ rNow >= reply.scheduled
  /\ reply' = flush([reply EXCEPT !.scheduled = NULL], FALSE, rNow)
  /\ UNCHANGED rNow

\* the final texts run() can resolve with: the silent token, or the streamed text and more
FinalTexts(r) ==
  {[n |-> 0, sil |-> TRUE]}
    \cup {[n |-> r.buffer.n + k * DeltaChars, sil |-> FALSE] : k \in 0..(MaxDeltas - r.deltas)}

\* run() resolves: the buffer becomes the final text, the timer is cleared, flush(true)
RunResolves ==
  /\ UNCHANGED <<schedVars, eventVars, indexVars, auxVars>>
  /\ reply.pc = "running"
  /\ \E finalText \in FinalTexts(reply) :
       reply' = flush([reply EXCEPT !.buffer = finalText, !.scheduled = NULL], TRUE, rNow)
  /\ UNCHANGED rNow

\* isCancelled() starts to answer true
Cancel ==
  /\ UNCHANGED <<schedVars, eventVars, indexVars, auxVars>>
  /\ ~reply.cancelled
  /\ reply.pc # "done" /\ reply.pc # "failed"
  /\ reply' = [reply EXCEPT !.cancelled = TRUE]
  /\ UNCHANGED rNow

SendStages == {"send", "fallback", "chunk", "append", "reactText"}

\* sendTelegramMessage returns the id of its first message
SendReturns ==
  /\ UNCHANGED <<schedVars, eventVars, indexVars, auxVars>>
  /\ reply.fl.pc \in SendStages
  /\ LET messageId == Len(reply.chat) + 1
         r1 == [delivered(reply, reply.fl.texts) EXCEPT !.didSend = TRUE]
     IN reply' =
          CASE reply.fl.pc = "send" ->
                 afterPrimary([r1 EXCEPT !.sentMessageId = messageId], rNow)
            [] reply.fl.pc = "fallback" ->
                 afterPrimary([r1 EXCEPT !.sentMessageId = messageId, !.mode = "send"], rNow)
            [] reply.fl.pc = "chunk" -> afterPrimary(r1, rNow)
            [] reply.fl.pc = "append" ->
                 finish([r1 EXCEPT !.sentMessageId = IF @ = NULL THEN messageId ELSE @,
                                   !.lastSentText = reply.fl.cleaned], rNow)
            [] reply.fl.pc = "reactText" -> finish(r1, rNow)
  /\ UNCHANGED rNow

\* sendTelegramMessage throws: nothing catches it inside flush
SendThrows ==
  /\ UNCHANGED <<schedVars, eventVars, indexVars, auxVars>>
  /\ reply.fl.pc \in SendStages
  /\ reply' = abort(reply, rNow)
  /\ UNCHANGED rNow

\* editTelegramMessage returns: the message now shows the text
EditReturns ==
  /\ UNCHANGED <<schedVars, eventVars, indexVars, auxVars>>
  /\ reply.fl.pc = "edit"
  /\ LET r1 == [reply EXCEPT !.chat[reply.sentMessageId] = Head(reply.fl.texts),
                             !.lastOk = TRUE, !.didSend = TRUE]
     IN reply' = afterPrimary(r1, rNow)
  /\ UNCHANGED rNow

\* the catch around editTelegramMessage
onEditError(r, notModified, t) ==
  IF notModified THEN afterPrimary(r, t)
  ELSE await(r, "fallback", r.fl.texts)

\* editTelegramMessage throws, with "message is not modified" or with something else
EditThrows ==
  /\ UNCHANGED <<schedVars, eventVars, indexVars, auxVars>>
  /\ reply.fl.pc = "edit"
  /\ \E notModified \in BOOLEAN : reply' = onEditError(reply, notModified, rNow)
  /\ UNCHANGED rNow

\* sendTelegramReaction returns true or false
ReactionReturns ==
  /\ UNCHANGED <<schedVars, eventVars, indexVars, auxVars>>
  /\ reply.fl.pc \in {"react", "reactOnly"}
  /\ \E ok \in BOOLEAN :
       reply' = IF ok THEN finish([reply EXCEPT !.didReact = TRUE], rNow)
                ELSE await(reply, "reactText", <<ReactText>>)
  /\ UNCHANGED rNow

(***************************************************************************)
(* Recall index                                                            *)
(*                                                                         *)
(* One source.  A content of its file is one of the versions               *)
(* 1..MaxVersions; different versions have different text in every chunk.  *)
(***************************************************************************)
Versions == 1..MaxVersions

\* fingerprintContent: the sha256 of the content, different for different contents
fingerprintContent(content) == 1000 + content

\* chunkMarkdown(content, source): version v is cut into v chunks
chunkMarkdown(content) == {[ver |-> content, k |-> j] : j \in 1..content}

\* the (ver, k) texts of a set of rows
contents(rows) == {[ver |-> r.ver, k |-> r.k] : r \in rows}

\* mutation of needsDelete: the old rows are never deleted
needsDeleteNever(existingFingerprint) == FALSE

\* indexTopLevelFiles: `if (existingFingerprint) store.deleteBySource(source)`
needsDelete(existingFingerprint) == existingFingerprint # NULL

\* the memory file is written with another content
WriteFile ==
  /\ UNCHANGED <<schedVars, eventVars, replyVars, auxVars>>
  /\ \E v \in Versions :
       /\ v # fileContent
       /\ fileContent' = v
  /\ UNCHANGED <<chunks, embeddings, nextChunkId, srcFingerprint, ixPc, ixContent, ixCount>>

\* indexAll reaches the file: read, fingerprint, compare with the stored one
IndexStart ==
  /\ UNCHANGED <<schedVars, eventVars, replyVars, auxVars>>
  /\ ixPc = "idle"
  /\ fileContent # NULL
  /\ IF srcFingerprint = fingerprintContent(fileContent)
       THEN /\ ixCount' = 0
            /\ UNCHANGED <<ixPc, ixContent>>
       ELSE /\ ixCount' = NULL
            /\ ixContent' = fileContent
            /\ ixPc' = IF needsDelete(srcFingerprint) THEN "deleteEmbeddings" ELSE "addChunks"
  /\ UNCHANGED <<fileContent, chunks, embeddings, nextChunkId, srcFingerprint>>

\* deleteBySource: DELETE FROM embeddings / vectors_vec for the ids of the source
DeleteEmbeddings ==
  /\ UNCHANGED <<schedVars, eventVars, replyVars, auxVars>>
  /\ ixPc = "deleteEmbeddings"
  /\ embeddings' = embeddings \ {r.id : r \in chunks}
  /\ ixPc' = "deleteChunks"
  /\ UNCHANGED <<fileContent, chunks, nextChunkId, srcFingerprint, ixContent, ixCount>>

\* deleteBySource: DELETE FROM chunks WHERE source = ?
DeleteChunks ==
  /\ UNCHANGED <<schedVars, eventVars, replyVars, auxVars>>
  /\ ixPc = "deleteChunks"
  /\ chunks' = {}
  /\ ixPc' = "deleteSources"
  /\ UNCHANGED <<fileContent, embeddings, nextChunkId, srcFingerprint, ixContent, ixCount>>

\* deleteBySource: DELETE FROM sources WHERE source = ?
DeleteSources ==
  /\ UNCHANGED <<schedVars, eventVars, replyVars, auxVars>>
  /\ ixPc = "deleteSources"
  /\ srcFingerprint' = NULL
  /\ ixPc' = "addChunks"
  /\ UNCHANGED <<fileContent, chunks, embeddings, nextChunkId, ixContent, ixCount>>

\* the rows addChunks inserts for a set of chunks, ids counted from first
insertRows(cs, first) ==
  {[id |-> first + c.k - 1, ver |-> c.ver, k |-> c.k] : c \in cs}

\* store.addChunks(chunks): one transaction
AddChunks ==
  /\ UNCHANGED <<schedVars, eventVars, replyVars, auxVars>>
  /\ ixPc = "addChunks"
  /\ LET cs == chunkMarkdown(ixContent)
     IN /\ nextChunkId + Cardinality(cs) - 1 <= MaxChunkRows
        /\ chunks' = chunks \cup insertRows(cs, nextChunkId)
        /\ nextChunkId' = nextChunkId + Cardinality(cs)
  /\ ixPc' = "setFingerprint"
  /\ UNCHANGED <<fileContent, embeddings, srcFingerprint, ixContent, ixCount>>

\* store.addChunks throws: ROLLBACK, and indexAll rejects
AddChunksThrows ==
  /\ UNCHANGED <<schedVars, eventVars, replyVars, auxVars>>
  /\ ixPc = "addChunks"
  /\ ixPc' = "idle"
  /\ ixContent' = NULL
  /\ UNCHANGED <<fileContent, chunks, embeddings, nextChunkId, srcFingerprint, ixCount>>

\* store.setSourceFingerprint(source, fingerprint), and the count of the file
SetSourceFingerprint ==
  /\ UNCHANGED <<schedVars, eventVars, replyVars, auxVars>>
  /\ ixPc = "setFingerprint"
  /\ srcFingerprint' = fingerprintContent(ixContent)
  /\ ixCount' = Cardinality(chunkMarkdown(ixContent))
  /\ ixPc' = "idle"
  /\ ixContent' = NULL
  /\ UNCHANGED <<fileContent, chunks, embeddings, nextChunkId>>

\* embedUnembedded: store.setEmbedding(id, embedding) for a chunk without one
SetEmbedding ==
  /\ UNCHANGED <<schedVars, eventVars, replyVars, auxVars>>
  /\ ixPc = "idle"
  /\ \E r \in chunks :
       /\ r.id \notin embeddings
       /\ embeddings' = embeddings \cup {r.id}
  /\ UNCHANGED <<fileContent, chunks, nextChunkId, srcFingerprint, ixPc, ixContent, ixCount>>

\* the indexing process dies between two statements
IndexCrash ==
  /\ UNCHANGED <<schedVars, eventVars, replyVars, auxVars>>
  /\ ixPc # "idle"
  /\ ixPc' = "idle"
  /\ ixContent' = NULL
  /\ UNCHANGED <<fileContent, chunks, embeddings, nextChunkId, srcFingerprint, ixCount>>

IndexVarsInit ==
  /\ fileContent = NULL
  /\ chunks = {}
  /\ embeddings = {}
  /\ nextChunkId = 1
  /\ srcFingerprint = NULL
  /\ ixPc = "idle"
  /\ ixContent = NULL
  /\ ixCount = NULL

\* startScheduler before its first scheduleNext
LifeVarsInit ==
  /\ stopped = FALSE
  /\ timer = FALSE
  /\ wakeTimer = FALSE
  /\ storeOpen = TRUE
  /\ closedDbThrows = TRUE
  /\ wokeAfterStop = FALSE

\* no executeJob call is modelled
ExecVarsInit ==
  /\ exJob = [chatId |-> 0, jobType |-> "none", urgent |-> FALSE, text |-> FALSE,
              script |-> <<>>, absolute |-> FALSE, notify |-> FALSE]
  /\ exDnd = FALSE
  /\ exPc = "none"
  /\ exError = ""
  /\ spawned = <<>>
  /\ outbox = <<>>

\* the daemon is not modelled
BootVarsInit ==
  /\ marker = NULL
  /\ allowlist = <<>>
  /\ bootPc = "down"
  /\ boots = 0
  /\ crashEvents = <<>>
  /\ queued = FALSE

\* no isDndActive call is modelled
DndVarsInit ==
  /\ dConfig = DndConfig
  /\ dZone = SchedTimezone
  /\ dNow = 0
  /\ dndFile = NULL
  /\ dPc = "idle"
  /\ dLoaded = NULL
  /\ dStatus = NoStatus

\* no search is modelled
SearchVarsInit ==
  /\ ftsResults = <<>>
  /\ vecResults = <<>>
  /\ searchLimit = 0
  /\ searchPc = "none"
  /\ searchResult = <<>>

\* no computeNextRunAt comparison is modelled
NextRunVarsInit ==
  /\ nrKind = "at"
  /\ nrSpec = 0
  /\ nrFrom = <<0, 0>>
  /\ nrResult = <<>>

\* no parseSchedule call is modelled
ParseVarsInit ==
  /\ psInput = <<>>
  /\ psNow = Inst(0, 0)
  /\ psDate = NaNTime
  /\ psPc = "done"
  /\ psResult = ParsedNull

\* no timer of the scheduler loop is modelled
LoopVarsInit ==
  /\ timerAt = 0
  /\ hbEnabled = FALSE
  /\ arrived = FALSE

\* no session store is open
SessVarsInit ==
  /\ ssState = [p \in Stores |-> EmptyDoc]
  /\ ssPc = [p \in Stores |-> "closed"]
  /\ ssFd = [p \in Stores |-> NULL]
  /\ ssChat = [p \in Stores |-> NULL]
  /\ ssWrites = 0
  /\ ssSaved = EmptyDoc
  /\ inodes = [i \in Inodes |-> EmptyFile]
  /\ sessIno = NULL
  /\ tmpIno = NULL

\* the transport does not run
TgVarsInit ==
  /\ tgUpdates = <<>>
  /\ tgConfirmed = 0
  /\ tgOnCallback = FALSE
  /\ tgOffset = NULL
  /\ tgStateFile = <<>>
  /\ tgBatch = <<>>
  /\ tgPc = "stopped"
  /\ tgDealt = {}

\* nothing is chunked
ChunkVarsInit ==
  /\ ckText = <<>>
  /\ ckEntities = <<>>
  /\ ckMax = 1
  /\ ckStart = 0
  /\ ckChunks = <<>>
  /\ ckPc = "done"

TailVarsInit == SessVarsInit /\ TgVarsInit /\ ChunkVarsInit

ExtVarsInit ==
  /\ ParseVarsInit
  /\ LoopVarsInit
  /\ TailVarsInit

AuxVarsInit ==
  /\ LifeVarsInit /\ ExecVarsInit /\ BootVarsInit /\ DndVarsInit /\ SearchVarsInit
  /\ NextRunVarsInit
  /\ ExtVarsInit

ReplyIdle == StreamState("none", FALSE)

ReplyVarsInit ==
  /\ rNow = ReplyStart
  /\ reply = ReplyIdle

EventVarsInit ==
  /\ clock = 0
  /\ events = <<>>
  /\ nextEventId = 1
  /\ nextToken = 1
  /\ pePc = "idle"
  /\ peToken = NULL
  /\ peGroups = <<>>
  /\ lastCall = NoCall

SchedVarsInit ==
  /\ now = 0
  /\ jobs = <<>>
  /\ nextJobId = 1
  /\ adhocUntil = NULL
  /\ pc = [p \in Procs |-> "idle"]
  /\ due = [p \in Procs |-> <<>>]
  /\ tickNow = [p \in Procs |-> 0]
  /\ ran = [j \in 1..MaxJobs |-> 0]
  /\ succeeded = [j \in 1..MaxJobs |-> FALSE]
  /\ running = [p \in Procs |-> FALSE]
  /\ bodies = [p \in Procs |-> 0]
  /\ rejected = [p \in Procs |-> FALSE]

EventInit == SchedVarsInit /\ EventVarsInit /\ ReplyVarsInit /\ IndexVarsInit /\ AuxVarsInit

EventNext ==
  \/ AddEvent
  \/ ClockTick
  \/ CallClaimEvents
  \/ CallAckEvents
  \/ CallReleaseClaim
  \/ PEStart
  \/ PEDispatchOk
  \/ PEAck
  \/ PEDispatchThrow
  \/ PECrash

EventSpec == EventInit /\ [][EventNext]_vars

SchedInit == SchedVarsInit /\ EventVarsInit /\ ReplyVarsInit /\ IndexVarsInit /\ AuxVarsInit

SchedNext ==
  \/ AddJob
  \/ AdvanceTime
  \/ SetAdhocDnd
  \/ \E p \in Procs : TickStart(p)
  \/ \E p \in Procs : ClaimDue(p)
  \/ \E p \in Procs : ExecuteJobStart(p)
  \/ \E p \in Procs : ExecuteJobReturn(p)
  \/ \E p \in Procs : ExecuteJobThrow(p)
  \/ \E p \in Procs : Crash(p)

SchedSpec == SchedInit /\ [][SchedNext]_vars

ReplyInit ==
  /\ SchedVarsInit
  /\ EventVarsInit
  /\ IndexVarsInit /\ AuxVarsInit
  /\ rNow = ReplyStart
  /\ \E dir \in StreamModes \cup {"none"}, canReact \in BOOLEAN :
       reply = StreamState(dir, canReact)

ReplyNext ==
  \/ OnDelta
  \/ ReplyTick
  \/ TypingTimerFires
  \/ TimerFires
  \/ RunResolves
  \/ Cancel
  \/ SendReturns
  \/ SendThrows
  \/ EditReturns
  \/ EditThrows
  \/ ReactionReturns

ReplySpec == ReplyInit /\ [][ReplyNext]_vars

\* one scheduler process, with the calls of tick that arrive during a tick
TickInit == SchedInit

TickNext ==
  \/ AddJob
  \/ AdvanceTime
  \/ SetAdhocDnd
  \/ TickStart("A")
  \/ TickWhileRunning("A")
  \/ ClaimDue("A")
  \/ ExecuteJobStart("A")
  \/ ExecuteJobReturn("A")
  \/ ExecuteJobThrow("A")
  \/ Crash("A")

TickSpec == TickInit /\ [][TickNext]_vars

\* the jobs table under every call of the store, with one scheduler process
JobsInit == SchedInit

JobsNext ==
  \/ AddJob
  \/ AddJobDisabled
  \/ RemoveJob
  \/ AdvanceTime
  \/ SetAdhocDnd
  \/ TickStart("A")
  \/ ClaimDue("A")
  \/ ExecuteJobStart("A")
  \/ ExecuteJobReturn("A")
  \/ ExecuteJobThrow("A")

JobsSpec == JobsInit /\ [][JobsNext]_vars

\* the events table holds n unclaimed events, the first k of them of chat 1,
\* when the scheduler calls processEvents
pendingTable(n, k) ==
  [i \in 1..n |-> [chatId |-> IF i <= k THEN 1 ELSE 2, createdAt |-> 0,
                    claimedAt |-> NULL, claimToken |-> NULL, processedAt |-> NULL]]

DispatchInit ==
  /\ SchedVarsInit
  /\ ReplyVarsInit
  /\ IndexVarsInit /\ AuxVarsInit
  /\ clock = 0
  /\ nextToken = 1
  /\ pePc = "idle"
  /\ peToken = NULL
  /\ peGroups = <<>>
  /\ lastCall = NoCall
  /\ \E n \in 0..MaxPending, k \in {0, 1} :
       /\ k <= n
       /\ events = pendingTable(n, k)
       /\ nextEventId = n + 1

\* heartbeat dispatches over a table nothing is added to
DispatchNext ==
  \/ ClockTick
  \/ PEStart
  \/ PEDispatchOk
  \/ PEAck
  \/ PEDispatchThrow

DispatchSpec == DispatchInit /\ [][DispatchNext]_vars

\* one scheduler from startScheduler to after its stop function; the first
\* scheduleNext of startScheduler has armed the timer
StopInit ==
  /\ SchedVarsInit
  /\ EventVarsInit
  /\ ReplyVarsInit
  /\ IndexVarsInit
  /\ stopped = FALSE
  /\ timer = TRUE
  /\ wakeTimer = FALSE
  /\ storeOpen = TRUE
  /\ closedDbThrows \in BOOLEAN
  /\ wokeAfterStop = FALSE
  /\ ExecVarsInit
  /\ BootVarsInit
  /\ DndVarsInit
  /\ SearchVarsInit
  /\ NextRunVarsInit
  /\ ExtVarsInit

StopNext ==
  \/ AdvanceTime
  \/ AddJob
  \/ TickTimerFires("A")
  \/ StopClaimDue("A")
  \/ ExecuteJobStart("A")
  \/ StopJobReturn("A")
  \/ ExecuteJobThrow("A")
  \/ RequestWake("A")
  \/ WakeTimerFires("A")
  \/ StopScheduler("A")

StopSpec == StopInit /\ [][StopNext]_vars

\* one executeJob call for every JobRecord of ExecJobs
ExecInit ==
  /\ SchedVarsInit
  /\ EventVarsInit
  /\ ReplyVarsInit
  /\ IndexVarsInit
  /\ LifeVarsInit
  /\ BootVarsInit
  /\ DndVarsInit
  /\ SearchVarsInit
  /\ NextRunVarsInit
  /\ ExtVarsInit
  /\ exJob \in ExecJobs
  /\ exDnd \in BOOLEAN
  /\ exPc = "start"
  /\ exError = ""
  /\ spawned = <<>>
  /\ outbox = <<>>

ExecNext ==
  \/ ExecuteJobBegin
  \/ AgentReplyReturns
  \/ ScriptExits

ExecSpec == ExecInit /\ [][ExecNext]_vars

\* the daemon is started MaxBoots times, from any marker left by an
\* earlier run and with an allowlist of zero, one or two chats
BootInit ==
  /\ SchedVarsInit
  /\ EventVarsInit
  /\ ReplyVarsInit
  /\ IndexVarsInit
  /\ LifeVarsInit
  /\ ExecVarsInit
  /\ DndVarsInit
  /\ SearchVarsInit
  /\ NextRunVarsInit
  /\ ExtVarsInit
  /\ marker \in ExitCodes \cup {NULL}
  /\ allowlist \in {<<>>, <<7>>, <<7, 8>>}
  /\ bootPc = "down"
  /\ boots = 0
  /\ crashEvents = <<>>
  /\ queued = FALSE

BootNext ==
  \/ Start
  \/ StartupCheck
  \/ ClearExitInfo
  \/ Exit
  \/ Kill

BootSpec == BootInit /\ [][BootNext]_vars

\* isDndActive is evaluated at one instant, for every window, zone and
\* stored ad-hoc record
DndInit ==
  /\ SchedVarsInit
  /\ EventVarsInit
  /\ ReplyVarsInit
  /\ IndexVarsInit
  /\ LifeVarsInit
  /\ ExecVarsInit
  /\ BootVarsInit
  /\ SearchVarsInit
  /\ NextRunVarsInit
  /\ ExtVarsInit
  /\ dConfig \in [enabled : BOOLEAN, start : Minutes, end : Minutes]
  /\ dZone \in Zones
  /\ dNow \in Instants
  /\ dndFile \in {NULL, dNow - 1, dNow, dNow + 1} \ {-1}
  /\ dPc = "idle"
  /\ dLoaded = NULL
  /\ dStatus = NoStatus

DndNext ==
  \/ LoadDndState
  \/ IsDndActiveReturns
  \/ NextDndCall
  \/ CliSetAdhocDnd

DndSpec == DndInit /\ [][DndNext]_vars

\* one search for every pair of result lists and every limit
SearchInit ==
  /\ SchedVarsInit
  /\ EventVarsInit
  /\ ReplyVarsInit
  /\ IndexVarsInit
  /\ LifeVarsInit
  /\ ExecVarsInit
  /\ BootVarsInit
  /\ DndVarsInit
  /\ NextRunVarsInit
  /\ ExtVarsInit
  /\ ftsResults \in HitLists
  /\ vecResults \in HitLists
  /\ searchLimit \in 1..MaxHits
  /\ searchPc = "ready"
  /\ searchResult = <<>>

SearchNext == Search

SearchSpec == SearchInit /\ [][SearchNext]_vars

\* computeNextRunAt for every kind, valid spec and pair of times t1 <= t2
NextRunInit ==
  /\ SchedVarsInit
  /\ EventVarsInit
  /\ ReplyVarsInit
  /\ IndexVarsInit
  /\ LifeVarsInit
  /\ ExecVarsInit
  /\ BootVarsInit
  /\ DndVarsInit
  /\ SearchVarsInit
  /\ ExtVarsInit
  /\ nrKind \in ScheduleKinds
  /\ nrSpec \in ValidSpecs(nrKind)
  /\ nrFrom \in {f \in (0..MaxFrom) \X (0..MaxFrom) : f[1] <= f[2]}
  /\ nrResult = <<>>

NextRunNext == ComputeNextRunAt

NextRunSpec == NextRunInit /\ [][NextRunNext]_vars

BaseVarsInit ==
  /\ SchedVarsInit /\ EventVarsInit /\ ReplyVarsInit /\ IndexVarsInit
  /\ LifeVarsInit /\ ExecVarsInit /\ BootVarsInit /\ DndVarsInit /\ SearchVarsInit
  /\ NextRunVarsInit

\* one parseSchedule call on every input of ScheduleInputs
ParseInit ==
  /\ BaseVarsInit
  /\ LoopVarsInit
  /\ TailVarsInit
  /\ psInput \in ScheduleInputs
  /\ psNow \in Nows
  /\ psDate = NaNTime
  /\ psPc = "ready"
  /\ psResult = ParsedNull

ParseNext == ParseSchedule

ParseSpec == ParseInit /\ [][ParseNext]_vars

\* one scheduler from the scheduleNext() at the end of startScheduler on: jobs
\* and events arrive from other processes and wake requests from signals
LoopInit ==
  /\ SchedVarsInit
  /\ EventVarsInit
  /\ ReplyVarsInit
  /\ IndexVarsInit
  /\ stopped = FALSE
  /\ timer = TRUE
  /\ wakeTimer = FALSE
  /\ storeOpen = TRUE
  /\ closedDbThrows = TRUE
  /\ wokeAfterStop = FALSE
  /\ ExecVarsInit /\ BootVarsInit /\ DndVarsInit /\ SearchVarsInit /\ NextRunVarsInit
  /\ ParseVarsInit
  /\ TailVarsInit
  /\ hbEnabled \in BOOLEAN
  /\ timerAt = MaxSleep
  /\ arrived = FALSE

LoopNext ==
  \/ AdvanceTime
  \/ LoopAddJob("A")
  \/ LoopAddEvent("A")
  \/ LoopTimerFires("A")
  \/ LoopClaimEvents("A")
  \/ LoopDispatchOk("A")
  \/ LoopAck("A")
  \/ LoopDispatchThrow("A")
  \/ LoopClaimDue("A")
  \/ ExecuteJobStart("A")
  \/ ExecuteJobReturn("A")
  \/ ExecuteJobThrow("A")
  \/ LoopRequestWake("A")
  \/ LoopWakeTimerFires("A")

LoopSpec == LoopInit /\ [][LoopNext]_vars

\* the steps of a running tick: a statement is executed or an await settles
TickStep ==
  \/ LoopClaimEvents("A")
  \/ LoopDispatchOk("A") \/ LoopAck("A") \/ LoopDispatchThrow("A")
  \/ LoopClaimDue("A")
  \/ ExecuteJobStart("A") \/ ExecuteJobReturn("A") \/ ExecuteJobThrow("A")

\* LoopSpec with a running tick going on and a timer that is due firing
FairLoopSpec ==
  /\ LoopSpec
  /\ WF_vars(TickStep)
  /\ WF_vars(LoopTimerFires("A"))
  /\ WF_vars(LoopWakeTimerFires("A"))

\* one scheduler without heartbeat, jobs that are added while it runs, and
\* the dnd command
DeferInit == LoopInit /\ ~hbEnabled

DeferNext ==
  \/ AdvanceTime
  \/ SetAdhocDnd
  \/ LoopAddJob("A")
  \/ LoopTimerFires("A")
  \/ LoopClaimDue("A")
  \/ ExecuteJobStart("A")
  \/ ExecuteJobReturn("A")
  \/ ExecuteJobThrow("A")
  \/ LoopRequestWake("A")
  \/ LoopWakeTimerFires("A")

DeferSpec == DeferInit /\ [][DeferNext]_vars

\* DeferSpec with a running tick going on and a timer that is due firing
FairDeferSpec ==
  /\ DeferSpec
  /\ WF_vars(TickStep)
  /\ WF_vars(LoopTimerFires("A"))
  /\ WF_vars(LoopWakeTimerFires("A"))

\* the daemon and a CLI process, each with a SessionStore on the same path
SessInit ==
  /\ BaseVarsInit
  /\ ParseVarsInit
  /\ LoopVarsInit
  /\ TailVarsInit

SessNext ==
  \E p \in Stores :
    \/ Construct(p)
    \/ ProcessExit(p)
    \/ SetResume(p)
    \/ SaveWrite(p)
    \/ SaveRename(p)

SessSpec == SessInit /\ [][SessNext]_vars

\* the transport of one daemon, with or without a callback handler
TgInit ==
  /\ BaseVarsInit
  /\ ParseVarsInit
  /\ LoopVarsInit
  /\ SessVarsInit
  /\ ChunkVarsInit
  /\ tgUpdates = <<>>
  /\ tgConfirmed = 0
  /\ tgOnCallback \in BOOLEAN
  /\ tgOffset = NULL
  /\ tgStateFile = <<>>
  /\ tgBatch = <<>>
  /\ tgPc = "stopped"
  /\ tgDealt = {}

TgNext ==
  \/ TgStart
  \/ TgReceive
  \/ TgGetUpdates
  \/ TgUpdate
  \/ TgHandlerReturns
  \/ TgHandlerThrows
  \/ TgRestart

TgSpec == TgInit /\ [][TgNext]_vars

\* one chunkTelegramMessage call on every text of Texts, with an entity that
\* lies inside the text
ChunkInit ==
  /\ BaseVarsInit
  /\ ParseVarsInit
  /\ LoopVarsInit
  /\ SessVarsInit
  /\ TgVarsInit
  /\ ckText \in Texts
  /\ ckEntities \in {es \in EntityLists(ckText) :
                       \A k \in DOMAIN es : es[k].offset + es[k].length <= Len(ckText)}
  /\ ckMax \in 1..MaxChunkChars
  /\ ckStart = 0
  /\ ckChunks = <<>>
  /\ ckPc = "ready"

ChunkNext ==
  \/ ChunkWhole
  \/ ChunkEnter
  \/ ChunkIteration
  \/ ChunkReturn

ChunkSpec == ChunkInit /\ [][ChunkNext]_vars

IndexInit == SchedInit

\* indexAll runs to its end, or addChunks throws
IndexNext ==
  \/ WriteFile
  \/ IndexStart
  \/ DeleteEmbeddings
  \/ DeleteChunks
  \/ DeleteSources
  \/ AddChunks
  \/ AddChunksThrows
  \/ SetSourceFingerprint
  \/ SetEmbedding

IndexSpec == IndexInit /\ [][IndexNext]_vars

\* indexAll may also be cut short between any two statements
IndexCrashNext == IndexNext \/ IndexCrash

IndexCrashSpec == IndexInit /\ [][IndexCrashNext]_vars

\* the ids a process has claimed and not yet settled
Held(p) == {due[p][k].id : k \in 1..Len(due[p])}

(***************************************************************************)
(* Scheduler properties                                                    *)
(***************************************************************************)
\* a step in which process p settles the job at the head of its list
\* without entering the job body: the DND deferral
DeferralStep(p) ==
  /\ pc[p] = "job"
  /\ pc'[p] \in {"job", "claim"}
  /\ due'[p] # due[p]

\* a step in which process p passes executeJob's DND gate, either way
GateStep(p) ==
  /\ pc[p] = "job"
  /\ pc'[p] # "idle"
  /\ <<pc'[p], due'[p]>> # <<pc[p], due[p]>>

\* C1: a one-shot (at) job is executed at most once over its lifetime, and
\* once an execution of it has succeeded it is disabled and no process holds
\* it from a later claimDueJobs call.
C1_AtJobRunsOnce ==
  \A j \in DOMAIN jobs :
    jobs[j].scheduleKind = "at" =>
      /\ ran[j] <= 1
      /\ succeeded[j] => (~jobs[j].enabled /\ \A p \in Procs : j \notin Held(p))

\* an at job has succeeded, time has moved on past its run, and a process
\* is inside a tick that started after it
C1_Witness ==
  \E j \in DOMAIN jobs :
    /\ jobs[j].scheduleKind = "at"
    /\ succeeded[j]
    /\ now > jobs[j].lastRunAt
    /\ \E p \in Procs : pc[p] = "claim"

\* C2: the job ids held from two claimDueJobs calls that have not yet been
\* written back are disjoint, for jobs of every schedule kind.
C2_ClaimsDisjoint ==
  \A p, q \in Procs : p # q => Held(p) \cap Held(q) = {}

\* C9: when a non-urgent send_message or agent_turn job reaches executeJob
\* while isDndActive reports active, its body is not entered and its stored
\* nextRunAt becomes the reported endsAt; an urgent job enters its body.
C9_DndDefers ==
  [][\A p \in Procs :
       GateStep(p) =>
         LET job == Head(due[p])
             row == jobs[job.id]
             status == isDndActive(DndConfig, adhocUntil, SchedTimezone, now)
         IN /\ (status.active /\ ~row.urgent
                  /\ row.jobType \in {"send_message", "agent_turn"}) =>
                 /\ pc'[p] # "exec"
                 /\ ran'[job.id] = ran[job.id]
                 /\ jobs'[job.id].nextRunAt = status.endsAt
            /\ row.urgent =>
                 /\ pc'[p] = "exec"
                 /\ ran'[job.id] = Min(2, ran[job.id] + 1)]_vars

\* a non-urgent user-facing job that was written back without ever having
\* run: it was deferred to the end of the DND period
C9_Witness ==
  \E j \in DOMAIN jobs :
    /\ ~jobs[j].urgent
    /\ jobs[j].jobType \in {"send_message", "agent_turn"}
    /\ ran[j] = 0
    /\ jobs[j].lastRunAt # NULL
    /\ jobs[j].nextRunAt > jobs[j].lastRunAt

\* C10: a DND deferral leaves the job's lastRunAt unchanged and leaves the
\* job enabled, for every schedule kind.
C10_DeferralIsNotARun ==
  [][\A p \in Procs :
       DeferralStep(p) =>
         LET id == Head(due[p]).id
         IN /\ jobs'[id].lastRunAt = jobs[id].lastRunAt
            /\ jobs'[id].enabled]_vars

\* C11: when the execution of a claimed job throws, the job's stored
\* nextRunAt, lastRunAt and enabled flag are what they were before the tick
\* claimed it (the row the claim selected was enabled), for every kind.
C11_ThrowLeavesJobAsClaimed ==
  [][\A p \in Procs :
       ExecuteJobThrow(p) =>
         LET job == Head(due[p])
         IN /\ jobs'[job.id].enabled
            /\ jobs'[job.id].nextRunAt = job.nextRunAt
            /\ jobs'[job.id].lastRunAt = job.lastRunAt]_vars

\* C12: at most one tick body executes at any time, and a call of tick that
\* arrives while a tick is running (also while it awaits a job) returns
\* without claiming any job.
C12_OneTickBody ==
  /\ [](\A p \in Procs : bodies[p] <= 1)
  /\ [][\A p \in Procs :
          (TickWhileRunning(p) /\ running[p]) =>
            /\ rejected'[p]
            /\ UNCHANGED <<jobs, due, pc, bodies>>]_vars

\* a tick call was turned away while the one running tick awaited a job
C12_Witness ==
  /\ rejected["A"]
  /\ pc["A"] = "exec"
  /\ bodies["A"] = 1

\* C16: in every reachable state of the jobs table every enabled job has a
\* non-null nextRunAt, and claimDueJobs never returns a job whose stored
\* enabled flag is false (or a removed one).
C16_EnabledJobsInvariant ==
  /\ [](\A i \in DOMAIN jobs :
          (~jobs[i].removed /\ jobs[i].enabled) => jobs[i].nextRunAt # NULL)
  /\ [][\A p \in Procs :
          ClaimDue(p) =>
            \A k \in 1..Len(due'[p]) :
              /\ jobs[due'[p][k].id].enabled
              /\ ~jobs[due'[p][k].id].removed]_vars

\* the tick that ran an at job has ended: its last claimDueJobs returned
\* nothing although the job, now disabled, was still due
C16_Witness ==
  /\ pc["A"] = "idle"
  /\ 1 \in DOMAIN jobs
  /\ succeeded[1]
  /\ ~jobs[1].enabled
  /\ ~jobs[1].removed
  /\ jobs[1].nextRunAt # NULL
  /\ jobs[1].nextRunAt <= now

\* C21: a job that is being executed when the stop function is called runs
\* to completion and its outcome (lastRunAt, nextRunAt, enabled) is written
\* back to the job store.
C21_InFlightJobWrittenBack ==
  [][\A p \in Procs :
       (StopJobReturn(p) /\ stopped) =>
         LET job == Head(due[p])
             row == jobs[job.id]
             nextRun == IF row.scheduleKind = "at" THEN NULL
                        ELSE computeNextRunAt(row.scheduleKind, row.scheduleSpec, now)
         IN /\ jobs'[job.id].lastRunAt = tickNow[p]
            /\ jobs'[job.id].enabled = (nextRun # NULL)
            /\ nextRun # NULL => jobs'[job.id].nextRunAt = nextRun]_vars

\* C22: after the stop function was called no tick body starts, neither the
\* tick timer nor the wake-debounce timer is armed, and a wake request
\* changes nothing.
C22_NothingAfterStop ==
  /\ [](stopped => ~timer /\ ~wakeTimer)
  /\ [][stopped =>
          /\ \A p \in Procs : running'[p] => running[p]
          /\ \A p \in Procs : bodies'[p] <= bodies[p]
          /\ \A p \in Procs : RequestWake(p) => UNCHANGED <<schedVars, timer, wakeTimer>>]_vars

\* the stop function was called during a job, the tick ended afterwards and a
\* wake request arrived
C22_Witness ==
  /\ stopped
  /\ wokeAfterStop
  /\ pc["A"] = "idle"
  /\ \E i \in DOMAIN jobs : succeeded[i] /\ jobs[i].lastRunAt = NULL

C28_EscapingScriptRejected ==
  LET scriptPath == resolve(resolvedScriptsRoot, exJob.script, exJob.absolute)
      outside == \/ Len(scriptPath) < Len(resolvedScriptsRoot)
                 \/ SubSeq(scriptPath, 1, Len(resolvedScriptsRoot)) # resolvedScriptsRoot
  IN /\ (exJob.jobType = "script" /\ exJob.script # <<>> /\ outside) =>
          /\ spawned = <<>>
          /\ exPc \in {"start", "threw"}
          /\ exPc = "threw" => exError = "Script path escapes scripts root"
     /\ spawned # <<>> =>
          /\ spawned = scriptPath
          /\ SubSeq(spawned, 1, Len(resolvedScriptsRoot)) = resolvedScriptsRoot

\* a path through ".." into a sibling directory whose name begins like the
\* root's was rejected
C28_Witness ==
  /\ exJob.jobType = "script"
  /\ exJob.script = <<"..", "scripts2", "a.ts">>
  /\ ~exJob.absolute
  /\ exPc = "threw"
  /\ exError = "Script path escapes scripts root"

\* C24: a marker with an exit code other than 0, 130 or 143 read at startup
\* yields exactly one daemon_crashed event for the first allow-listed chat
\* and is then cleared; a clean marker or no marker yields no event; no
\* crash marker is cleared without its event having been queued.
C24_CrashMarkerYieldsOneEvent ==
  [][/\ StartupCheck =>
          IF marker # NULL /\ marker \notin {0, 130, 143}
            THEN /\ allowlist # <<>>
                 /\ crashEvents' = Append(crashEvents, allowlist[1])
                 /\ bootPc' = "clear"
            ELSE UNCHANGED crashEvents
     /\ ClearExitInfo => (queued /\ marker' = 0)
     /\ crashEvents' # crashEvents => StartupCheck]_vars

\* C25: whenever isDndActive returns active, endsAt is non-null and later
\* than now; for a scheduled window it is the first instant after now whose
\* wall-clock time in the configured zone equals end, and at that instant
\* the window is not active.
C25_EndsAtNextEnd ==
  (dPc = "done" /\ dStatus.active) =>
    /\ dStatus.endsAt # NULL
    /\ dStatus.endsAt > dNow
    /\ dStatus.reason = "scheduled" =>
         /\ getTimeZoneParts(dStatus.endsAt, dZone).minute = dConfig.end
         /\ \A u \in (dNow + 1)..(dStatus.endsAt - 1) :
              getTimeZoneParts(u, dZone).minute # dConfig.end
         /\ ~isInTimeWindow(dConfig.start, dConfig.end, dStatus.endsAt, dZone)

\* C26: with no ad-hoc override, isDndActive at wall-clock minute m is active
\* iff scheduled DND is enabled and start <= m < end (start <= end) or
\* m >= start or m < end (start > end).
C26_WindowMembership ==
  (dPc = "done" /\ ~(dLoaded # NULL /\ dLoaded > dNow)) =>
    LET m == (dNow + utcOffset(dZone, dNow)) % DayLen
        start == dConfig.start
        end == dConfig.end
    IN dStatus.active <=>
         /\ dConfig.enabled
         /\ IF start <= end THEN start <= m /\ m < end
                            ELSE m >= start \/ m < end

\* an overnight window was found active after midnight in the zone with
\* daylight saving time
C26_Witness ==
  /\ dPc = "done"
  /\ dLoaded = NULL
  /\ dConfig.start > dConfig.end
  /\ getTimeZoneParts(dNow, dZone).minute < dConfig.end
  /\ dZone = "Dst"
  /\ dStatus.active
  /\ dStatus.reason = "scheduled"

\* C27: an ad-hoc DND with until > now makes isDndActive return active with
\* reason adhoc and endsAt = until; a read at or after until clears the
\* record, and a read never removes a record that is not yet expired.
C27_AdhocLazyClear ==
  /\ []((dPc = "done" /\ dLoaded # NULL /\ dLoaded > dNow) =>
          dStatus = [active |-> TRUE, reason |-> "adhoc", endsAt |-> dLoaded])
  /\ [][IsDndActiveReturns =>
          /\ (dndFile # NULL /\ dndFile <= dNow) => dndFile' = NULL
          /\ (dndFile # NULL /\ dndFile > dNow) => dndFile' = dndFile]_vars

\* the fused score the claim gives a candidate: the sum over the lists that
\* contain it of 1 / (60 + rank + 1), rank counted from 0
ExpectedScore(id) ==
  LET inFts == \E p \in DOMAIN ftsResults : ftsResults[p] = id
      inVec == \E p \in DOMAIN vecResults : vecResults[p] = id
      f == 60 + (CHOOSE p \in DOMAIN ftsResults : ftsResults[p] = id) - 1 + 1
      v == 60 + (CHOOSE p \in DOMAIN vecResults : vecResults[p] = id) - 1 + 1
  IN IF inFts /\ inVec THEN [num |-> f + v, den |-> f * v]
     ELSE IF inFts THEN [num |-> 1, den |-> f] ELSE [num |-> 1, den |-> v]

\* C29: when both lists have results, each result carries the sum of
\* 1/(60 + rank + 1) over the lists that contain it, the results are the at
\* most K best candidates in descending fused score, and matchType is hybrid
\* exactly for candidates of both lists and otherwise names the one list;
\* FTS = [A] and vector = [B, A] give A (hybrid) above B (vector).
C29_RrfFusion ==
  (searchPc = "done" /\ ftsResults # <<>> /\ vecResults # <<>>) =>
    LET res == searchResult
        cands == hitIds(ftsResults) \cup hitIds(vecResults)
        shown == {res[p].id : p \in DOMAIN res}
    IN /\ Len(res) = Min(searchLimit, Cardinality(cands))
       /\ Cardinality(shown) = Len(res)
       /\ shown \subseteq cands
       /\ \A p \in DOMAIN res :
            /\ res[p].num * ExpectedScore(res[p].id).den
                 = ExpectedScore(res[p].id).num * res[p].den
            /\ res[p].matchType =
                 IF res[p].id \in hitIds(ftsResults) /\ res[p].id \in hitIds(vecResults)
                   THEN "hybrid"
                   ELSE IF res[p].id \in hitIds(ftsResults) THEN "fts" ELSE "vector"
       /\ \A p, q \in DOMAIN res : p < q => ~scoreGreater(res[q], res[p])
       /\ \A id \in cands \ shown : \A p \in DOMAIN res :
            ~scoreGreater(ExpectedScore(id), res[p])
       /\ (ftsResults = <<1>> /\ vecResults = <<2, 1>> /\ searchLimit >= 2) =>
            /\ res[1].id = 1 /\ res[1].matchType = "hybrid"
            /\ res[2].id = 2 /\ res[2].matchType = "vector"

\* FTS = [A], vector = [B, A] was searched: A came first as hybrid
C29_Witness ==
  /\ searchPc = "done"
  /\ ftsResults = <<1>>
  /\ vecResults = <<2, 1>>
  /\ Len(searchResult) = 2
  /\ searchResult[1].id = 1
  /\ searchResult[1].matchType = "hybrid"

AllowedTransitions ==
  {<<"pending", "claimed">>, <<"claimed", "processed">>, <<"claimed", "pending">>}

\* C3: under addEvent, claimEvents, ackEvents, releaseClaim and the passage
\* of time the state of an event changes only from pending to claimed, from
\* claimed to processed and from claimed to pending.
C3_EventLifecycle ==
  [][\A id \in DOMAIN events :
       LET before == EventState(events[id], clock)
           after == EventState(events'[id], clock')
       IN before = after \/ <<before, after>> \in AllowedTransitions]_vars

ClaimStep == lastCall'.op = "claim" /\ lastCall' # lastCall

\* C5 as stated: an event claimed at t and neither acked nor released is
\* returned by no claimEvents call with now < t + staleAfter and is returned,
\* under a fresh token, by a claimEvents call with now >= t + staleAfter.
C5_StaleReclaim ==
  [][ClaimStep =>
       \A id \in DOMAIN events :
         LET e == events[id]
         IN (e.claimedAt # NULL /\ e.processedAt = NULL) =>
              /\ lastCall'.at < e.claimedAt + lastCall'.staleAfter => id \notin lastCall'.ids
              /\ lastCall'.at >= e.claimedAt + lastCall'.staleAfter =>
                   (id \in lastCall'.ids /\ events'[id].claimToken # e.claimToken)]_vars

\* the unprocessed events a claimEvents call at time t may take that were
\* created no later than event id
ClaimableUpTo(id, t, staleAfterMs) ==
  {f \in DOMAIN events :
     /\ events[f].processedAt = NULL
     /\ (events[f].claimedAt = NULL \/ t >= events[f].claimedAt + staleAfterMs)
     /\ events[f].createdAt <= events[id].createdAt}

\* C5 amended: an event claimed at t and neither acked nor released is
\* returned by no claimEvents call with now < t + staleAfter, and is returned
\* under a fresh token by a claimEvents call with now >= t + staleAfter
\* whose limit covers the claimable events created no later than it.
C5_StaleReclaimWithinLimit ==
  [][ClaimStep =>
       \A id \in DOMAIN events :
         LET e == events[id]
         IN (e.claimedAt # NULL /\ e.processedAt = NULL) =>
              /\ lastCall'.at < e.claimedAt + lastCall'.staleAfter => id \notin lastCall'.ids
              /\ (/\ lastCall'.at >= e.claimedAt + lastCall'.staleAfter
                  /\ Cardinality(ClaimableUpTo(id, lastCall'.at, lastCall'.staleAfter))
                       <= lastCall'.limit) =>
                   (id \in lastCall'.ids /\ events'[id].claimToken # e.claimToken)]_vars

\* a claimEvents call has just returned, under its own token, an event whose
\* earlier claim was exactly staleAfter old, while processEvents is idle
C5_Witness ==
  /\ lastCall.op = "claim"
  /\ lastCall.stale # {}
  /\ \E id \in lastCall.stale :
       /\ events[id].claimToken = lastCall.token
       /\ events[id].claimedAt = lastCall.at
  /\ lastCall.at >= lastCall.staleAfter

\* C6: ackEvents(token) and releaseClaim(token) change only events whose
\* claim token equals token; with a token that no event holds they change
\* nothing and return 0.
C6_TokenScoped ==
  [][(lastCall'.op \in {"ack", "release"} /\ lastCall' # lastCall) =>
       /\ \A id \in DOMAIN events :
            events[id].claimToken # lastCall'.token => events'[id] = events[id]
       /\ (\A id \in DOMAIN events : events[id].claimToken # lastCall'.token) =>
            (lastCall'.ret = 0 /\ events' = events)]_vars

\* an ack has just marked an event processed while another event, held
\* under a different token, is still claimed and unprocessed
C6_Witness ==
  /\ lastCall.op = "ack"
  /\ lastCall.ret > 0
  /\ \E a, b \in DOMAIN events :
       /\ events[a].claimToken = lastCall.token
       /\ events[a].processedAt # NULL
       /\ events[b].claimToken \notin {NULL, lastCall.token}
       /\ events[b].processedAt = NULL

\* C19: a heartbeat dispatch claims all pending events: after a processEvents
\* call that completes without error, every event that was pending when the
\* call began is processed (nothing is added meanwhile), whatever their number.
C19_DispatchClaimsAllPending ==
  [][PEAck => \A i \in DOMAIN events : events'[i].processedAt # NULL]_vars

\* C20: after a dispatcher exception has released a claim, no claimEvents
\* call returns the released events before staleAfter has elapsed since they
\* were claimed: right after the release the claim statement does not select
\* them.
C20_ReleasedWaitForStale ==
  [][PEDispatchThrow =>
       \A i \in selectClaimed(events, peToken) :
         events[i].claimedAt > clock - DEFAULT_STALE_MS =>
           ~claimable(events'[i], clock' - DEFAULT_STALE_MS)]_vars

(***************************************************************************)
(* Streaming reply properties                                              *)
(***************************************************************************)
\* the text messages of the chat, in order, without reaction fallbacks
RECURSIVE textMessages(_)
textMessages(chat) ==
  IF chat = <<>> THEN <<>>
  ELSE (IF Head(chat) = ReactText THEN <<>> ELSE <<Head(chat)>>) \o textMessages(Tail(chat))

\* the messages of the chat, read in order, are exactly the first n characters
shows(chat, n) ==
  LET msgs == textMessages(chat)
  IN /\ msgs # <<>>
     /\ msgs[1].lo = 0
     /\ msgs[Len(msgs)].hi = n
     /\ \A i \in 1..(Len(msgs) - 1) : msgs[i].hi = msgs[i + 1].lo

\* C7: across any execution of streamAgentReply, no two consecutive
\* sendMessage / editMessageText calls made for the reply carry the same
\* visible text: no call repeats the text the call before it has put into
\* the chat.
C7_NoRepeatedText == ~reply.dup

\* C8: when run() resolved with a text that is neither silent nor empty and
\* the reply is not cancelled, then once streamAgentReply has returned the
\* chat shows the final cleaned text, responseText is that text and the same
\* text went to the message log - also when a timer-driven flush was in
\* progress as run() resolved.
C8_FinalFlushShown ==
  (reply.pc = "done" /\ ~reply.cancelled /\ ~reply.buffer.sil /\ reply.buffer.n > 0)
    => /\ reply.responseText = reply.buffer.n
       /\ reply.logged = reply.buffer.n
       /\ shows(reply.chat, reply.buffer.n)

\* C13: when the final text of the engine is the silent token alone, the
\* reply puts no text message in the chat at any point, whatever deltas were
\* streamed before: at most the text fallback of one reaction.
C13_SilentPutsNoText ==
  reply.buffer.sil =>
    /\ textMessages(reply.chat) = <<>>
    /\ Len(reply.chat) <= 1

\* the step makes a transport call: the flush goes on to a new await
CallIssued == reply'.fl # reply.fl /\ reply'.fl.pc # "idle"

\* C14: once isCancelled() returns true, the reply engine makes no further
\* sendMessage, editMessageText or reaction call for the reply, neither from
\* a flush already in progress nor from a scheduled or the final flush.
C14_NoCallAfterCancel == [][reply.cancelled => ~CallIssued]_vars

\* C15: in edit mode with a message already sent, an edit failing with "not
\* modified" triggers no fallback call and no mode change; an edit failing
\* with another error triggers one fresh sendMessage of the same chunk, whose
\* message becomes the tracked one, and switches the mode to append, and the
\* flushes that follow in the reply run in append mode.
C15_EditErrorHandling ==
  [][/\ (EditThrows /\ reply'.fl.pc # "fallback") =>
          /\ reply'.mode = reply.mode
          /\ reply'.sentMessageId = reply.sentMessageId
     /\ (EditThrows /\ reply'.fl.pc = "fallback") =>
          reply'.fl.texts = reply.fl.texts
     /\ (SendReturns /\ reply.fl.pc = "fallback") =>
          /\ reply'.sentMessageId = Len(reply.chat) + 1
          /\ reply'.chat[reply'.sentMessageId] = Head(reply.fl.texts)
          /\ reply'.mode = "send"
     /\ reply.mode = "send" => reply'.mode = "send"]_vars

(***************************************************************************)
(* Recall index properties                                                 *)
(***************************************************************************)
\* the rows are exactly the chunks of the content with fingerprint fp, once each
ChunksMatch(fp) ==
  /\ \E v \in Versions : fp = fingerprintContent(v) /\ contents(chunks) = chunkMarkdown(v)
  /\ \A r1, r2 \in chunks : (r1.ver = r2.ver /\ r1.k = r2.k) => r1.id = r2.id

\* C17: at every observable point, also after a crash or an error between
\* two steps of indexing, the stored chunks of the source are either none or
\* exactly the chunk set of the content whose fingerprint is recorded, so
\* that repeating indexAll never leaves duplicate chunks.
C17_ReindexAtomic ==
  ixPc = "idle" => (chunks = {} \/ ChunksMatch(srcFingerprint))

\* C18: indexAll rewrites the chunks of a source if and only if the content
\* fingerprint differs from the stored one: over an unchanged file it inserts
\* and deletes nothing, and after a change it leaves only the chunks of the
\* new content, with the new fingerprint recorded.
C18_ReindexOnChange ==
  /\ []((ixPc = "idle" /\ srcFingerprint # NULL) => ChunksMatch(srcFingerprint))
  /\ [][IndexStart =>
          IF srcFingerprint = fingerprintContent(fileContent)
            THEN UNCHANGED <<chunks, embeddings, nextChunkId, srcFingerprint, ixPc>>
            ELSE ixPc' # "idle"]_vars
  /\ [][SetSourceFingerprint =>
          /\ srcFingerprint' = fingerprintContent(ixContent)
          /\ contents(chunks') = chunkMarkdown(ixContent)]_vars

\* the file was indexed, changed, indexed again (rows of the old content
\* gone) and then indexed once more without a change
C18_Witness ==
  /\ ixPc = "idle"
  /\ ixCount = 0
  /\ srcFingerprint = fingerprintContent(fileContent)
  /\ ChunksMatch(srcFingerprint)
  /\ \E r \in chunks : r.id > Cardinality(chunks)

(***************************************************************************)
(* Schedule parser properties                                              *)
(***************************************************************************)
\* the 5-field cron the claim gives `every <frequency> at <H>[:MM] [am|pm]`
ExpectedCron(s) ==
  LET f == s[3].w
      last == s[Len(s)]
      ampm == IF last.k = "word" THEN toLowerCase(last.w) ELSE "none"
      H == s[7].n
      MM == IF Len(s) >= 9 /\ s[8] = Colon THEN s[9].n ELSE 0
      dow == CASE f = "monday" -> "1" [] f = "tuesday" -> "2" [] f = "wednesday" -> "3"
               [] f = "thursday" -> "4" [] f = "friday" -> "5" [] f = "saturday" -> "6"
               [] f = "sunday" -> "0" [] f = "week" -> "1" [] OTHER -> "*"
  IN [minute |-> MM,
      hour |-> IF ampm = "am" /\ H = 12 THEN 0 ELSE IF ampm = "pm" /\ H < 12 THEN H + 12 ELSE H,
      dom |-> IF f = "month" THEN "1" ELSE "*", month |-> "*", dow |-> dow]

\* the number of the first documented form the text matches, 9 for the fallback
FirstForm(s) ==
  CASE CRON_PREFIX_RE(s) -> 1
    [] ~CRON_PREFIX_RE(s) /\ EVERY_DURATION_RE(s) -> 2
    [] OTHER ->
       IF DURATION_RE(s) THEN 3 ELSE IF RELATIVE_TIME_RE(s) THEN 4
       ELSE IF EVERY_NATURAL_RE(s) THEN 5 ELSE IF TOMORROW_RE(s) THEN 6
       ELSE IF TODAY_RE(s) THEN 7 ELSE IF EXACT_TIME_RE(s) THEN 8 ELSE 9

FormKind(form) == IF form \in {1, 5} THEN "cron" ELSE IF form = 2 THEN "every" ELSE "at"

\* C31: parseSchedule maps every <N>{s|m|h|d} to (every, N followed by the
\* unit), a bare <N>{s|m|h|d} to (at, now + duration), and every
\* (day|week|<weekday>|month) at <H>[:MM] [am|pm] to the cron `MM H * * dow`
\* (Mon=1..Sat=6, Sun=0, week as monday, month as day-of-month 1, 12am as hour
\* 0, pm adding 12 below 12); the first matching form in the documented order
\* decides, and an input of no form that is no date yields null.
C31_ParseSchedule ==
  psPc = "done" =>
    LET s == trim(psInput)
    IN /\ s \in EveryDurationInputs =>
            psResult = Parsed("every", <<s[3], Word(toLowerCase(s[4].w))>>)
       /\ s \in BareDurationInputs =>
            /\ psResult.kind = "at"
            /\ psResult.spec =
                 plusMs(psNow, parseDurationToMs(s[1].n, toLowerCase(s[2].w)))
       /\ s \in EveryNaturalInputs => psResult = Parsed("cron", ExpectedCron(s))
       /\ (FirstForm(s) < 9 \/ psDate # NaNTime) => psResult.kind = FormKind(FirstForm(s))
       /\ (FirstForm(s) = 9 /\ psDate = NaNTime) => psResult = ParsedNull

\* C31 for the inputs whose date lies in the range of Date
C31_ParseScheduleInRange ==
  (\A i \in 1..Len(psInput) : psInput[i].n # MaxDateDays) => C31_ParseSchedule

(***************************************************************************)
(* Scheduler loop properties                                               *)
(***************************************************************************)
\* the tick holds job i among the rows claimDueJobs returned to it
Claimed(i) == \E k \in DOMAIN due["A"] : due["A"][k].id = i

\* C32: every tick drains due jobs as well as processing pending events: a
\* heartbeat dispatch that throws does not keep the due jobs of the tick from
\* being claimed, so a job that is due and enabled while a tick runs is
\* eventually claimed for execution, even while event dispatch keeps failing.
C32_DueJobsDrainedDespiteDispatchFailure ==
  \A i \in 1..MaxJobs :
    (running["A"] /\ i \in DOMAIN jobs /\ i \in DueIds(jobs, now)) ~> Claimed(i)

\* C33: every tick terminates: the loop that repeats claimDueJobs until it
\* returns an empty list ends after finitely many iterations for every set of
\* jobs, recurring jobs whose execution throws included, and the scheduler
\* returns to sleeping.
C33_TickTerminates == running["A"] ~> ~running["A"]

\* the tick timer is armed no later than a new tick is due after time t: at
\* once when the heartbeat is enabled and an event waits, no later than the
\* earliest enabled nextRunAt, and never later than maxSleep
ArmedInTime(jobTbl, eventTbl, armed, at, t) ==
  /\ armed
  /\ at <= t + MaxSleep
  /\ (hbEnabled /\ \E e \in DOMAIN eventTbl : eventTbl[e].processedAt = NULL) => at <= t
  /\ \A i \in DOMAIN jobTbl :
       (jobTbl[i].enabled /\ ~jobTbl[i].removed) => at <= Max(t, jobTbl[i].nextRunAt)

\* C34: a wake request, a job or an event that arrives while a tick is running
\* is not lost: when the running tick has finished (and when the wake-debounce
\* timer fires after it) a new tick is scheduled no later than the earliest enabled
\* nextRunAt, immediately if the heartbeat is enabled and events are pending,
\* and never later than maxSleep; a sleeping scheduler always has its timer armed.
C34_ArrivalsNotLost ==
  /\ [](pc["A"] = "idle" => timer)
  /\ [][(running["A"] /\ ~running'["A"]) =>
          ArmedInTime(jobs', events', timer', timerAt', now)]_vars
  /\ [][(wakeTimer /\ ~wakeTimer' /\ ~running["A"]) =>
          ArmedInTime(jobs', events', timer', timerAt', now)]_vars

\* a tick during which an event came has finished, and the timer is armed for
\* at once because the event waits
C34_Witness ==
  /\ pc["A"] = "idle"
  /\ arrived
  /\ hbEnabled
  /\ \E e \in DOMAIN events : events[e].processedAt = NULL
  /\ \E e \in DOMAIN events : events[e].processedAt # NULL
  /\ timer
  /\ timerAt = now
  /\ ~wakeTimer

(***************************************************************************)
(* Flush serialisation                                                     *)
(***************************************************************************)
\* a call of flush is made in this step: by the flush timer or by the end of run()
FlushCalled == TimerFires \/ RunResolves

\* a flush body is between its entry and its finally block
BodyRunning(r) == r.fl.pc # "idle"

\* C35: within one reply at most one flush body runs at a time: a flush body
\* runs exactly while flushInProgress is set, and a call of flush made
\* meanwhile leaves the running body alone.  A non-final flush called
\* meanwhile (the reply not cancelled) sets pendingFlush, which stays set
\* only while the body runs, and when that body ends the flush timer is
\* armed (once: one slot) and pendingFlush is cleared, so a later flush runs.
C35_FlushSerialized ==
  /\ [](reply.flushInProgress <=> BodyRunning(reply))
  /\ [](reply.pendingFlush => reply.flushInProgress)
  /\ [][(FlushCalled /\ BodyRunning(reply)) => reply'.fl = reply.fl]_vars
  /\ [][(TimerFires /\ BodyRunning(reply) /\ ~reply.cancelled) => reply'.pendingFlush]_vars
  /\ [][(BodyRunning(reply) /\ ~BodyRunning(reply') /\ reply.pendingFlush)
          => (reply'.scheduled # NULL /\ ~reply'.pendingFlush)]_vars

\* a non-final flush was called during a flush that awaits the transport, and
\* the buffer holds text that flush does not show
C35_Witness ==
  /\ reply.pendingFlush
  /\ reply.flushInProgress
  /\ ~reply.fl.final
  /\ ~reply.cancelled
  /\ reply.buffer.n > reply.fl.cleaned

(***************************************************************************)
(* Typing indicator                                                        *)
(***************************************************************************)
\* triggerSend gets past its didTriggerSend test in this step: onWillSend is called
OnWillSendCalled == ~reply.didTriggerSend /\ reply'.didTriggerSend

\* C37: onWillSend is invoked at most once per reply (didTriggerSend, once
\* set, stays set), and only when the buffer holds non-silent visible text:
\* a reply whose output is silent or empty never triggers it, however long
\* the engine takes.
C37_OnWillSendOnlyForVisibleText ==
  /\ [][reply.didTriggerSend => reply'.didTriggerSend]_vars
  /\ [][OnWillSendCalled => parseReplyDirectives(reply').text > 0]_vars

(***************************************************************************)
(* DND deferral                                                            *)
(***************************************************************************)
\* job i was written back by a deferral and its body has never been entered
Deferred(i) == i \in DOMAIN jobs /\ jobs[i].lastRunAt # NULL /\ ran[i] = 0

DndActiveNow == isDndActive(DndConfig, adhocUntil, SchedTimezone, now).active

\* the tick is at executeJob for job i
AtGate(i) == pc["A"] = "job" /\ Head(due["A"]).id = i

Disk == load(sessIno, inodes)

\* no setter call is in progress
SessQuiet == \A p \in Stores : ssPc[p] \in {"closed", "ready"}

\* the document on disk holds, for every chat, the change of the last setter
\* call that returned for it
ChangesOnDisk == SessQuiet => \A c \in SessChats : Disk[c] = ssSaved[c]

\* the file on disk is a complete document
FileComplete == sessIno # NULL => inodes[sessIno].kind = "doc"

\* C38: updates made through two SessionStore instances are not lost: once
\* the setters have returned, the document on disk holds the changes of
\* both instances, each chat with the value saved last for it; and the file
\* on disk is at all times a complete document.
C38_SessionUpdatesNotLost == ChangesOnDisk /\ FileComplete

(***************************************************************************)
(* Transport loop properties                                               *)
(***************************************************************************)
\* C39: the persisted offset never decreases; when the loop has dealt with
\* an update (handled, ignored for its sender, or skipped as unparseable,
\* message or callback query) the offset, in memory and in the file, is the
\* update's id + 1, and no getUpdates call returns an update already dealt
\* with; a handler that throws leaves the offset as it is and its update
\* comes with the next getUpdates call.
C39_OffsetFollowsUpdates ==
  /\ [][loadOffset(tgStateFile') >= loadOffset(tgStateFile)]_vars
  /\ [][\A id \in tgDealt' \ tgDealt :
          tgOffset' = id + 1 /\ loadOffset(tgStateFile') = id + 1]_vars
  /\ [][TgGetUpdates =>
          /\ \A k \in DOMAIN tgBatch' : tgBatch'[k] \notin tgDealt
          /\ \A id \in DOMAIN tgUpdates : id \notin tgDealt =>
               \E k \in DOMAIN tgBatch' : tgBatch'[k] = id]_vars
  /\ [][TgHandlerThrows =>
          /\ tgOffset' = tgOffset
          /\ tgStateFile' = tgStateFile
          /\ Head(tgBatch) \notin tgDealt']_vars

(***************************************************************************)
(* Message chunking properties                                             *)
(***************************************************************************)
RECURSIVE concatTexts(_)
concatTexts(list) ==
  IF list = <<>> THEN <<>> ELSE Head(list).text \o concatTexts(Tail(list))

\* every entity of the chunk lies within the text of the chunk
EntitiesWithin(chunk) ==
  \A k \in DOMAIN chunk.entities :
    /\ chunk.entities[k].offset >= 0
    /\ chunk.entities[k].length >= 1
    /\ chunk.entities[k].offset + chunk.entities[k].length <= Len(chunk.text)

\* the returned chunks make up the text, with chunks of 1..limit characters
ChunksOf(limit) ==
  /\ concatTexts(ckChunks) = ckText
  /\ \A k \in DOMAIN ckChunks :
       /\ Len(ckChunks[k].text) >= 1
       /\ Len(ckChunks[k].text) <= limit
       /\ EntitiesWithin(ckChunks[k])

\* C40: the chunk texts of chunkTelegramMessage, concatenated in order, equal
\* the text; every chunk is non-empty and at most maxChars characters long;
\* every entity slice lies within its chunk; and the loop terminates: each
\* pass moves `start` forward.
C40_ChunksPartitionText ==
  /\ [](ckPc = "done" => ChunksOf(ckMax))
  /\ [][ChunkIteration => ckStart' > ckStart]_vars

\* what holds of the chunks: a chunk may be one character longer than maxChars
C40_ChunksWithinOneMore ==
  /\ [](ckPc = "done" => ChunksOf(ckMax + 1))
  /\ [][ChunkIteration => ckStart' > ckStart]_vars

===============================================================================
